---------------------------- MODULE Spec2Model ----------------------------
(***************************************************************************)
(* Model of the BUCODel / bucohub registration backend (src/server.js).    *)
(*                                                                         *)
(* State: the two MySQL tables the handlers touch (registrations, admins), *)
(* the upload directory, and one record per HTTP request holding the       *)
(* handler's inputs, its local variables, its position (the callback or    *)
(* await it is suspended at) and the response it sent.                     *)
(*                                                                         *)
(* Every action is one run-to-completion segment of a handler on node's    *)
(* event loop: from the arrival of a callback up to the next await or      *)
(* db.query / fs.unlink whose callback is still outstanding.               *)
(***************************************************************************)
EXTENDS Integers, Sequences, FiniteSets, TLC

(***************************************************************************)
(* Bounds of the model.                                                    *)
(***************************************************************************)
\* number of HTTP requests the server accepts in one behaviour that starts
\* with an empty registrations table
MaxReqs == 3

\* number of HTTP requests the server accepts in one behaviour that starts
\* after two students have registered
MaxOps == 2

\* the listing is asked for pages 1..MaxPage of 1..MaxLimit rows
MaxPage == 3
MaxLimit == 2

\* the PDF export runs on tables of 0..MaxStudents students
MaxStudents == 104

(***************************************************************************)
(* JavaScript values of request fields.  A field a client left out is      *)
(* undefined; a JSON body can carry a number where a string is expected,   *)
(* and a repeated multipart field arrives as an array (typeof "object").   *)
(***************************************************************************)
Str(s) == [type |-> "string", val |-> s]
Undef == [type |-> "undefined", val |-> ""]
Num == [type |-> "number", val |-> "7"]
Arr == [type |-> "object", val |-> "[..]"]
Null == [type |-> "null", val |-> ""]

\* !v of JavaScript, for the values above
Falsy(v) == v.type \in {"undefined", "null"} \/ (v.type = "string" /\ v.val = "")

(***************************************************************************)
(* Paths and URLs are strings; a string is modelled as the sequence of its *)
(* path tokens, the separator "/" being a token of its own, so that        *)
(* String.replace and path.join act on them as they do on the text.        *)
(***************************************************************************)
NULL == <<>>

\* const uploadsDir = './uploads'
uploadsDir == <<".", "/", "uploads">>

\* index of the first occurrence of pat in s, 0 when there is none
IndexOf(s, pat) ==
    LET hits == {i \in 1..(Len(s) - Len(pat) + 1) :
                    SubSeq(s, i, i + Len(pat) - 1) = pat}
    IN IF hits = {} THEN 0 ELSE CHOOSE i \in hits : \A j \in hits : i <= j

\* s.replace(pat, ''): removes the first occurrence only
ReplaceFirst(s, pat) ==
    LET i == IndexOf(s, pat)
    IN IF i = 0 THEN s
       ELSE SubSeq(s, 1, i - 1) \o SubSeq(s, i + Len(pat), Len(s))

\* path.normalize for the relative paths that occur here: "." segments and
\* empty segments (doubled separators) are dropped
RECURSIVE Normalize(_)
Normalize(p) ==
    IF p = <<>> THEN <<>>
    ELSE IF Head(p) = "." /\ Len(p) >= 2 /\ p[2] = "/" THEN Normalize(SubSeq(p, 3, Len(p)))
    ELSE IF Head(p) = "/" /\ Len(p) >= 2 /\ p[2] = "/" THEN Normalize(Tail(p))
    ELSE <<Head(p)>> \o Normalize(Tail(p))

\* path.join(a, b)
PathJoin(a, b) == Normalize(a \o <<"/">> \o b)

\* multer.diskStorage filename: profile-<name>-<Date.now()>-<random><ext>; the
\* suffix makes the name of every upload its own, here the request's number
GenFileName(r) == "profile-" \o ToString(r)

\* req.file.path as multer's disk storage reports it: join(destination, filename)
UploadPath(filename) == PathJoin(uploadsDir, <<filename>>)

\* fileSize: 5 * 1024 * 1024
MaxFileSize == 5242880

allowedMimesAndText ==
    {"image/jpeg", "image/jpg", "image/png", "image/gif", "image/webp", "text/plain"}

allowedMimes == {"image/jpeg", "image/jpg", "image/png", "image/gif", "image/webp"}

\* the upload a request carries: none, or a file part with its type and size
NoFile == [present |-> FALSE, mimetype |-> "", size |-> 0]
FilePart(m, n) == [present |-> TRUE, mimetype |-> m, size |-> n]

\* multer's fileFilter
fileFilter(file) == file.mimetype \in allowedMimes

\* FileUtils.validateFile(file).valid
validateFile(file) ==
    /\ file.present
    /\ ~(file.size > MaxFileSize)
    /\ file.mimetype \in allowedMimes

\* FileUtils.generateFileUrl(filename)
generateFileUrl(filename) ==
    IF filename = "" THEN NULL ELSE <<"/", "uploads", "/", filename>>

\* app.use('/uploads', express.static(uploadsDir)): the file a URL is served from
ServedPath(url) ==
    PathJoin(uploadsDir, ReplaceFirst(url, <<"/", "uploads", "/">>))

\* FileUtils.deleteFile: the path handed to fs.unlink for the argument filePath
DeleteTarget(filePath) ==
    PathJoin(uploadsDir, ReplaceFirst(filePath, <<"/", "uploads", "/">>))

(***************************************************************************)
(* bcryptjs.  hash rejects ("Illegal arguments") unless the password is a  *)
(* string; compare rejects unless both arguments are strings, is false for *)
(* a stored value that is no bcrypt hash, and is otherwise true exactly    *)
(* for the hashed plaintext.  The password column holds a string: either a *)
(* bcrypt hash of a plaintext or some other text.                          *)
(***************************************************************************)
Hash(p) == [alg |-> "bcrypt", of |-> p]
Raw(s) == [alg |-> "none", of |-> s]

HashRejects(password) == password.type # "string"
CompareRejects(password) == password.type # "string"
Compare(password, stored) == stored.alg = "bcrypt" /\ stored.of = password.val

\* the seeded admin's password column: 59 characters, not a bcrypt hash
SeedPassword == Raw("$2a$10$8K1p...")

(***************************************************************************)
(* State.                                                                  *)
(***************************************************************************)
VARIABLES
    registrations,  \* table registrations: id -> row
    admins,         \* table admins: id -> row
    autoInc,        \* AUTO_INCREMENT counters of the two tables
    files,          \* the files on disk, by path relative to the working directory
    reqs            \* the requests: number -> record

vars == <<registrations, admins, autoInc, files, reqs>>

\* the numbers of the requests of the behaviour
Reqs == DOMAIN reqs

\* every number a request can have
ReqNumbers == 1..(MaxReqs + MaxOps + 2)

\* where request r stands; "none" when the behaviour has no such request
Pc(r) == IF r \in Reqs THEN reqs[r].pc ELSE "none"

NoResp == [status |-> 0, body |-> [error |-> ""]]
Resp(s, b) == [status |-> s, body |-> b]
ErrBody(msg) == [error |-> msg]

IdleReq == [kind |-> "idle", pc |-> "idle", in |-> [none |-> TRUE],
            loc |-> [none |-> TRUE], res |-> NoResp]

\* the seeded row of admins (INSERT IGNORE in the setup SQL)
SeedAdmin == [first_name |-> "System", last_name |-> "Administrator",
              email |-> "admin@bucohub.com", password |-> SeedPassword,
              role |-> "super_admin", is_active |-> TRUE, last_login |-> FALSE]

\* the server has started on a database holding no student
Init ==
    /\ registrations = <<>>
    /\ admins = (1 :> SeedAdmin)
    /\ autoInc = [registrations |-> 1, admins |-> 2]
    /\ files = {}
    /\ reqs = [r \in 1..MaxReqs |-> IdleReq]

\* The state requests 1 and 2 leave behind when both registered a student,
\* the first with a profile picture: the rows their INSERTs wrote and the
\* file multer stored (SeededIsReached states that SpecReg reaches it).
SeededRegistrations ==
    LET row(email, pwd, url) ==
            [firstName |-> "Ann", lastName |-> "Lee", email |-> email,
             phone |-> "555", password |-> Hash(pwd), courses |-> <<"c1">>,
             coursesNull |-> FALSE,
             profilePictureUrl |-> url, is_active |-> TRUE,
             last_login |-> FALSE, updated_at |-> "created"]
    IN (1 :> row("a@x", "p1", generateFileUrl(GenFileName(1))))
       @@ (2 :> row("b@x", "p1", NULL))

SeededFiles == {UploadPath(GenFileName(1))}

InitSeeded ==
    /\ registrations = SeededRegistrations
    /\ admins = (1 :> SeedAdmin)
    /\ autoInc = [registrations |-> 3, admins |-> 2]
    /\ files = SeededFiles
    /\ reqs = [r \in 3..(MaxOps + 2) |-> IdleReq]

\* requests are numbered in the order they arrive
Arrives(r) ==
    /\ Pc(r) = "idle"
    /\ \A q \in Reqs : q < r => reqs[q].pc # "idle"

Ids(table) == DOMAIN table

\* a table whose UNIQUE key on email is not enforced
DupEntryOff(table, email, except) == FALSE

\* the UNIQUE key on email: does an INSERT / UPDATE of this email into the
\* table collide with a row other than `except`?
DupEntry(table, email, except) ==
    \E i \in Ids(table) : i # except /\ table[i].email = email

\* fs.unlink(path): fails when the file is not there, and can fail for a file
\* that is (ok = FALSE: EPERM, EBUSY, ...)
UnlinkOk(path, ok) == path \in files /\ ok
Unlink(path, ok) == IF UnlinkOk(path, ok) THEN files \ {path} ELSE files

\* FileUtils.deleteFile(filePath): resolves, never rejects
deleteFileResult(filePath, ok) ==
    IF filePath = NULL THEN TRUE ELSE UnlinkOk(DeleteTarget(filePath), ok)
deleteFile(filePath, ok) ==
    IF filePath = NULL THEN files ELSE Unlink(DeleteTarget(filePath), ok)

\* the handler returns without an answer
AnswerNothing(r, s, b) == [reqs EXCEPT ![r].pc = "done"]

\* res.status(s).json(b): the request is answered
Answer(r, s, b) == [reqs EXCEPT ![r].pc = "done", ![r].res = Resp(s, b)]

(***************************************************************************)
(* upload.single('profilePicture'): multer runs before the handler.  A     *)
(* part the fileFilter refuses, or one over the size limit, ends in the    *)
(* error middleware and leaves no file; otherwise the file is on disk and  *)
(* req.file describes it.                                                  *)
(***************************************************************************)
MulterRefuses(file) == file.present /\ (~fileFilter(file) \/ file.size > MaxFileSize)

\* the error-handling middleware's answer to multer's error
MulterError(file) ==
    IF ~fileFilter(file)
    THEN Resp(400, ErrBody("Invalid file type"))
    ELSE Resp(400, ErrBody("File too large. Maximum size is 5MB."))

\* req.file after multer stored the part of request r
ReqFile(r, file) ==
    IF file.present
    THEN [present |-> TRUE, filename |-> GenFileName(r),
          path |-> UploadPath(GenFileName(r)),
          mimetype |-> file.mimetype, size |-> file.size]
    ELSE [present |-> FALSE, filename |-> "", path |-> NULL,
          mimetype |-> "", size |-> 0]

(***************************************************************************)
(* POST /api/register                                                      *)
(***************************************************************************)
\* the handler's answer once the pending deleteFile has resolved
RegLoc(file, courses, url, hashed, then) ==
    [file |-> file, coursesToStore |-> courses, profilePictureUrl |-> url,
     hashedPassword |-> hashed, err |-> "", then |-> then]

\* coursesToStore of the handler
coursesToStore(courses) ==
    IF Falsy(courses) THEN <<>>
    ELSE IF courses.type = "object" THEN <<"c1", "c2">>
    ELSE IF courses.type = "string" THEN <<courses.val>>
    ELSE <<>>

\* multer, then the handler up to its first await
Register(r, in) ==
    /\ Arrives(r)
    /\ LET file == ReqFile(r, in.file)
           start == [IdleReq EXCEPT !.kind = "register", !.in = in,
                        !.loc = RegLoc(file, <<>>, NULL, Raw(""), NoResp)]
           missing == Falsy(Str(in.firstName)) \/ Falsy(Str(in.lastName))
                        \/ Falsy(Str(in.email)) \/ Falsy(Str(in.phone))
                        \/ Falsy(in.password)
           loc(then) == RegLoc(file, coursesToStore(in.courses),
                               generateFileUrl(file.filename), Raw(""), then)
       IN IF MulterRefuses(in.file)
          THEN /\ reqs' = [reqs EXCEPT ![r] =
                             [start EXCEPT !.pc = "done", !.res = MulterError(in.file)]]
               /\ UNCHANGED files
          ELSE /\ files' = IF file.present THEN files \cup {file.path} ELSE files
               /\ reqs' = [reqs EXCEPT ![r] =
                    IF missing
                    THEN IF file.present
                         THEN [start EXCEPT !.pc = "reg_unlink",
                                 !.loc = loc(Resp(400, ErrBody("Required fields missing")))]
                         ELSE [start EXCEPT !.pc = "done",
                                 !.res = Resp(400, ErrBody("Required fields missing"))]
                    ELSE IF file.present /\ ~validateFile(file)
                    THEN [start EXCEPT !.pc = "reg_unlink",
                            !.loc = loc(Resp(400, ErrBody("Invalid file")))]
                    ELSE [start EXCEPT !.pc = "reg_hash", !.loc = loc(NoResp)]]
    /\ UNCHANGED <<registrations, admins, autoInc>>

\* await bcrypt.hash(password, saltRounds) settles; on success the INSERT is sent
RegisterHash(r) ==
    /\ Pc(r) = "reg_hash"
    /\ LET q == reqs[r]
           failed == Resp(500, ErrBody("Error processing registration"))
       IN reqs' = [reqs EXCEPT ![r] =
            IF HashRejects(q.in.password)
            THEN IF q.loc.file.present
                 THEN [q EXCEPT !.pc = "reg_unlink", !.loc.then = failed]
                 ELSE [q EXCEPT !.pc = "done", !.res = failed]
            ELSE [q EXCEPT !.pc = "reg_insert",
                           !.loc.hashedPassword = Hash(q.in.password.val)]]
    /\ UNCHANGED <<registrations, admins, autoInc, files>>

\* a row written without the URL of the upload
NewStudentNoPicture(q) ==
    [firstName |-> q.in.firstName, lastName |-> q.in.lastName,
     email |-> q.in.email, phone |-> q.in.phone,
     password |-> q.loc.hashedPassword, courses |-> q.loc.coursesToStore,
     coursesNull |-> FALSE,
     profilePictureUrl |-> NULL,
     is_active |-> TRUE, last_login |-> FALSE, updated_at |-> "created"]

\* the row the INSERT of the registration handler writes
NewStudent(q) ==
    [firstName |-> q.in.firstName, lastName |-> q.in.lastName,
     email |-> q.in.email, phone |-> q.in.phone,
     password |-> q.loc.hashedPassword, courses |-> q.loc.coursesToStore,
     coursesNull |-> FALSE,
     profilePictureUrl |-> q.loc.profilePictureUrl,
     is_active |-> TRUE, last_login |-> FALSE, updated_at |-> "created"]

\* the answer of the INSERT callback to an error (err.code)
InsertError(code) ==
    IF code = "ER_DUP_ENTRY"
    THEN Resp(409, ErrBody("Email already registered"))
    ELSE Resp(500, ErrBody("sqlMessage"))

\* the body of a successful registration
RegisterOk(q, id) ==
    Resp(200, [message |-> "Registration successful", studentId |-> id,
               firstName |-> q.in.firstName, lastName |-> q.in.lastName,
               email |-> q.in.email, phone |-> q.in.phone,
               courses |-> q.loc.coursesToStore,
               profilePictureUrl |-> q.loc.profilePictureUrl])

\* the database runs the INSERT and the callback runs: dbOk = FALSE is a
\* failure of the query that is not the duplicate key
RegisterInsert(r, dbOk) ==
    /\ Pc(r) = "reg_insert"
    /\ LET q == reqs[r]
           id == autoInc.registrations
           code == IF ~dbOk THEN "ER_OTHER"
                   ELSE IF DupEntry(registrations, q.in.email, 0) THEN "ER_DUP_ENTRY"
                   ELSE "OK"
       IN IF code = "OK"
          THEN /\ registrations' = (id :> NewStudent(q)) @@ registrations
               /\ autoInc' = [autoInc EXCEPT !.registrations = id + 1]
               /\ reqs' = [reqs EXCEPT ![r] =
                             [q EXCEPT !.pc = "done", !.res = RegisterOk(q, id)]]
          ELSE /\ UNCHANGED <<registrations, autoInc>>
               /\ reqs' = [reqs EXCEPT ![r] =
                    IF q.loc.file.present
                    THEN [q EXCEPT !.pc = "reg_unlink", !.loc.err = code,
                                   !.loc.then = InsertError(code)]
                    ELSE [q EXCEPT !.pc = "done", !.loc.err = code,
                                   !.res = InsertError(code)]]
    /\ UNCHANGED <<admins, files>>

\* await FileUtils.deleteFile(req.file.path) resolves and the handler answers
RegisterUnlink(r, ioOk) ==
    /\ Pc(r) = "reg_unlink"
    /\ files' = deleteFile(reqs[r].loc.file.path, ioOk)
    /\ reqs' = [reqs EXCEPT ![r].pc = "done", ![r].res = reqs[r].loc.then]
    /\ UNCHANGED <<registrations, admins, autoInc>>

(***************************************************************************)
(* authenticateAdmin: the middleware in front of the student-management    *)
(* routes.  It calls next() for every request, whatever credential the     *)
(* request carries ("" when it carries none).                              *)
(***************************************************************************)
authenticateAdmin(cred) == TRUE

\* the row of registrations a SELECT ... WHERE id = ? returns, if any
Found(id) == id \in Ids(registrations)

(***************************************************************************)
(* DELETE /api/students/:id                                                *)
(***************************************************************************)
\* the handler sends its SELECT
Delete(r, in) ==
    /\ Arrives(r)
    /\ authenticateAdmin(in.cred)
    /\ reqs' = [reqs EXCEPT ![r] =
            [IdleReq EXCEPT !.kind = "delete", !.pc = "del_select", !.in = in,
                !.loc = [profilePictureUrl |-> NULL, unlinked |-> "no"]]]
    /\ UNCHANGED <<registrations, admins, autoInc, files>>

\* the SELECT's callback: answers 500 / 404, or goes on to the file and the row
DeleteSelect(r, dbOk) ==
    /\ Pc(r) = "del_select"
    /\ LET q == reqs[r]
           id == q.in.id
       IN reqs' = [reqs EXCEPT ![r] =
            IF ~dbOk THEN [q EXCEPT !.pc = "done", !.res = Resp(500, ErrBody("err.message"))]
            ELSE IF ~Found(id)
            THEN [q EXCEPT !.pc = "done", !.res = Resp(404, ErrBody("Student not found"))]
            ELSE IF registrations[id].profilePictureUrl # NULL
            THEN [q EXCEPT !.pc = "del_unlink",
                           !.loc.profilePictureUrl = registrations[id].profilePictureUrl]
            ELSE [q EXCEPT !.pc = "del_query"]]
    /\ UNCHANGED <<registrations, admins, autoInc, files>>

\* a handler that gives up when the picture could not be removed
DeleteAfterUnlinkStrict(q, deleted) ==
    IF deleted
    THEN [q EXCEPT !.pc = "del_query", !.loc.unlinked = "removed"]
    ELSE [q EXCEPT !.pc = "done", !.loc.unlinked = "failed",
                   !.res = Resp(500, ErrBody("Error deleting student"))]

\* the handler after await FileUtils.deleteFile(profilePictureUrl): the
\* promise's value is dropped and the DELETE is sent
DeleteAfterUnlink(q, deleted) ==
    [q EXCEPT !.pc = "del_query",
              !.loc.unlinked = IF deleted THEN "removed" ELSE "failed"]

\* await FileUtils.deleteFile(profilePictureUrl) resolves
DeleteUnlink(r, ioOk) ==
    /\ Pc(r) = "del_unlink"
    /\ files' = deleteFile(reqs[r].loc.profilePictureUrl, ioOk)
    /\ reqs' = [reqs EXCEPT ![r] =
            DeleteAfterUnlink(reqs[r], deleteFileResult(reqs[r].loc.profilePictureUrl, ioOk))]
    /\ UNCHANGED <<registrations, admins, autoInc>>

\* table without the row id
Without(table, id) == [i \in Ids(table) \ {id} |-> table[i]]

\* the database runs DELETE FROM registrations WHERE id = ? and the callback answers
DeleteQuery(r, dbOk) ==
    /\ Pc(r) = "del_query"
    /\ IF dbOk
       THEN /\ registrations' = Without(registrations, reqs[r].in.id)
            /\ reqs' = Answer(r, 200, [message |-> "Student deleted successfully"])
       ELSE /\ UNCHANGED registrations
            /\ reqs' = Answer(r, 500, ErrBody("deleteErr.message"))
    /\ UNCHANGED <<admins, autoInc, files>>

(***************************************************************************)
(* PUT /api/students/:id                                                   *)
(***************************************************************************)
\* s.trim(), for the space character
RECURSIVE trimStart(_)
trimStart(s) ==
    IF Len(s) > 0 /\ SubSeq(s, 1, 1) = " " THEN trimStart(SubSeq(s, 2, Len(s))) ELSE s

RECURSIVE trimEnd(_)
trimEnd(s) ==
    IF Len(s) > 0 /\ SubSeq(s, Len(s), Len(s)) = " "
    THEN trimEnd(SubSeq(s, 1, Len(s) - 1)) ELSE s

trim(s) == trimEnd(trimStart(s))

\* s.includes(c) for a character c
includes(s, c) == \E k \in 1..Len(s) : SubSeq(s, k, k) = c

\* s.split(',')
RECURSIVE split(_)
split(s) ==
    IF ~includes(s, ",") THEN <<s>>
    ELSE LET k == CHOOSE n \in 1..Len(s) :
                    /\ SubSeq(s, n, n) = ","
                    /\ \A m \in 1..(n - 1) : SubSeq(s, m, m) # ","
         IN <<SubSeq(s, 1, k - 1)>> \o split(SubSeq(s, k + 1, Len(s)))

\* seq.map(item => item.trim()).filter(item => item)
RECURSIVE trimmedItems(_)
trimmedItems(seq) ==
    IF seq = <<>> THEN <<>>
    ELSE (IF trim(Head(seq)) = "" THEN <<>> ELSE <<trim(Head(seq))>>)
            \o trimmedItems(Tail(seq))

\* JSON.parse of a text that is no array: a string literal without escapes
\* gives its characters, a number, null, true or false is kept as its text
JsonScalar(s) ==
    LET digits == Len(s) > 0
                    /\ \A k \in 1..Len(s) : includes("0123456789", SubSeq(s, k, k))
        literal == /\ Len(s) >= 2
                   /\ SubSeq(s, 1, 1) = "\"" /\ SubSeq(s, Len(s), Len(s)) = "\""
                   /\ \A k \in 2..(Len(s) - 1) : SubSeq(s, k, k) \notin {"\"", "\\"}
    IN IF s \in {"null", "true", "false"} THEN [ok |-> TRUE, value |-> s]
       ELSE IF digits /\ (Len(s) = 1 \/ SubSeq(s, 1, 1) # "0")
       THEN [ok |-> TRUE, value |-> s]
       ELSE IF literal THEN [ok |-> TRUE, value |-> SubSeq(s, 2, Len(s) - 1)]
       ELSE [ok |-> FALSE, value |-> ""]

\* the elements of a JSON array of scalars, and whether every one parses
RECURSIVE JsonElements(_)
JsonElements(seq) ==
    IF seq = <<>> THEN [ok |-> TRUE, items |-> <<>>]
    ELSE LET first == JsonScalar(trim(Head(seq)))
             rest == JsonElements(Tail(seq))
         IN [ok |-> first.ok /\ rest.ok, items |-> <<first.value>> \o rest.items]

\* Array.isArray(parsed) ? parsed : [parsed], for JSON.parse(s) of a scalar
\* or of an array of scalars that hold no comma; ok is FALSE when JSON.parse
\* throws
JsonParse(s) ==
    IF Len(s) >= 2 /\ SubSeq(s, 1, 1) = "[" /\ SubSeq(s, Len(s), Len(s)) = "]"
    THEN LET inner == trim(SubSeq(s, 2, Len(s) - 1))
         IN IF inner = "" THEN [ok |-> TRUE, items |-> <<>>]
            ELSE JsonElements(split(inner))
    ELSE LET one == JsonScalar(s)
         IN [ok |-> one.ok, items |-> IF one.ok THEN <<one.value>> ELSE <<>>]

\* parseCourses(coursesData); an array stands for ["c1", "c2"]
parseCourses(coursesData) ==
    IF Falsy(coursesData) THEN <<>>
    ELSE IF coursesData.type = "object" THEN <<"c1", "c2">>
    ELSE IF coursesData.type = "string"
    THEN LET trimmed == trim(coursesData.val)
             cleanData ==
                IF Len(trimmed) > 0 /\ SubSeq(trimmed, 1, 1) = "\""
                    /\ SubSeq(trimmed, Len(trimmed), Len(trimmed)) = "\""
                THEN SubSeq(trimmed, 2, Len(trimmed) - 1) ELSE trimmed
             parsed == JsonParse(cleanData)
         IN IF parsed.ok THEN parsed.items
            ELSE IF includes(cleanData, ",") THEN trimmedItems(split(cleanData))
            ELSE IF cleanData # "" THEN <<cleanData>>
            ELSE <<>>
    ELSE <<>>

\* req.body of an update: `has` are the columns the body names
Body(has, firstName, email, password, is_active, courses) ==
    [has |-> has, firstName |-> firstName, email |-> email,
     password |-> Raw(password), is_active |-> is_active, courses |-> courses,
     coursesJson |-> <<>>, profilePictureUrl |-> NULL]

EmptyBody == Body({}, "", "", "", TRUE, Undef)

\* updates.profilePictureUrl = FileUtils.generateFileUrl(req.file.filename)
WithPicture(u, url) ==
    [u EXCEPT !.has = @ \cup {"profilePictureUrl"}, !.profilePictureUrl = url]

\* the handler's last changes to updates: courses re-encoded when given and
\* not falsy, updated_at set
PrepareUpdates(u) ==
    [u EXCEPT !.has = @ \cup {"updated_at"},
              !.coursesJson = IF "courses" \in u.has /\ ~Falsy(u.courses)
                              THEN parseCourses(u.courses) ELSE <<>>]

\* an UPDATE that writes every column of updates, named by the body or not
ApplyUpdatesAll(row, u) ==
    [firstName |-> u.firstName, lastName |-> row.lastName,
     email |-> u.email, phone |-> row.phone, password |-> u.password,
     courses |-> u.coursesJson, coursesNull |-> u.courses.type = "null",
     profilePictureUrl |-> u.profilePictureUrl,
     is_active |-> u.is_active, last_login |-> row.last_login,
     updated_at |-> "updated"]

\* UPDATE registrations SET ? : the row after the columns of updates are set
ApplyUpdates(row, u) ==
    [firstName |-> IF "firstName" \in u.has THEN u.firstName ELSE row.firstName,
     lastName |-> row.lastName,
     email |-> IF "email" \in u.has THEN u.email ELSE row.email,
     phone |-> row.phone,
     password |-> IF "password" \in u.has THEN u.password ELSE row.password,
     courses |-> IF "courses" \in u.has THEN u.coursesJson ELSE row.courses,
     coursesNull |-> IF "courses" \in u.has THEN u.courses.type = "null"
                     ELSE row.coursesNull,
     profilePictureUrl |-> IF "profilePictureUrl" \in u.has
                           THEN u.profilePictureUrl ELSE row.profilePictureUrl,
     is_active |-> IF "is_active" \in u.has THEN u.is_active ELSE row.is_active,
     last_login |-> row.last_login,
     updated_at |-> IF "updated_at" \in u.has THEN "updated" ELSE row.updated_at]

\* the error of the UPDATE, "OK" when it has none: the query fails (dbOk =
\* FALSE), the new email is another row's (UNIQUE key), or the JSON column
\* courses is given a text that is no JSON document
UpdateErrorCode(id, u, dbOk) ==
    IF ~dbOk THEN "ER_OTHER"
    ELSE IF ~Found(id) THEN "OK"
    ELSE IF "email" \in u.has /\ DupEntry(registrations, u.email, id) THEN "ER_DUP_ENTRY"
    ELSE IF "courses" \in u.has /\ Falsy(u.courses) /\ u.courses.type # "null"
    THEN "ER_INVALID_JSON_TEXT"
    ELSE "OK"

\* multer, then the handler up to its SELECT
Update(r, in) ==
    /\ Arrives(r)
    /\ authenticateAdmin(in.cred)
    /\ LET file == ReqFile(r, in.file)
           start == [IdleReq EXCEPT !.kind = "update", !.in = in,
                        !.loc = [file |-> file, updates |-> in.body,
                                 oldProfilePicture |-> NULL, err |-> "",
                                 then |-> NoResp]]
       IN IF MulterRefuses(in.file)
          THEN /\ reqs' = [reqs EXCEPT ![r] =
                             [start EXCEPT !.pc = "done", !.res = MulterError(in.file)]]
               /\ UNCHANGED files
          ELSE /\ files' = IF file.present THEN files \cup {file.path} ELSE files
               /\ reqs' = [reqs EXCEPT ![r] =
                    [start EXCEPT !.pc = "upd_select"]]
    /\ UNCHANGED <<registrations, admins, autoInc>>

\* the SELECT's callback, up to the await or query it stops at
UpdateSelect(r, dbOk) ==
    /\ Pc(r) = "upd_select"
    /\ LET q == reqs[r]
           id == q.in.id
           old == registrations[id].profilePictureUrl
           url == generateFileUrl(q.loc.file.filename)
       IN reqs' = [reqs EXCEPT ![r] =
            IF ~dbOk THEN [q EXCEPT !.pc = "done", !.res = Resp(500, ErrBody("err.message"))]
            ELSE IF ~Found(id)
            THEN [q EXCEPT !.pc = "done", !.res = Resp(404, ErrBody("Student not found"))]
            ELSE IF ~q.loc.file.present
            THEN [q EXCEPT !.pc = "upd_query", !.loc.oldProfilePicture = old,
                           !.loc.updates = PrepareUpdates(q.loc.updates)]
            ELSE IF ~validateFile(q.loc.file)
            THEN [q EXCEPT !.pc = "upd_unlink_new", !.loc.oldProfilePicture = old,
                           !.loc.then = Resp(400, ErrBody("Invalid file"))]
            ELSE IF old # NULL
            THEN [q EXCEPT !.pc = "upd_unlink_old", !.loc.oldProfilePicture = old,
                           !.loc.updates = WithPicture(q.loc.updates, url)]
            ELSE [q EXCEPT !.pc = "upd_query", !.loc.oldProfilePicture = old,
                           !.loc.updates = PrepareUpdates(WithPicture(q.loc.updates, url))]]
    /\ UNCHANGED <<registrations, admins, autoInc, files>>

\* await FileUtils.deleteFile(oldProfilePicture) resolves; the UPDATE is sent
UpdateUnlinkOld(r, ioOk) ==
    /\ Pc(r) = "upd_unlink_old"
    /\ files' = deleteFile(reqs[r].loc.oldProfilePicture, ioOk)
    /\ reqs' = [reqs EXCEPT ![r].pc = "upd_query",
                            ![r].loc.updates = PrepareUpdates(reqs[r].loc.updates)]
    /\ UNCHANGED <<registrations, admins, autoInc>>

\* the handler's answer to an error of the UPDATE
UpdateError(code) == Resp(500, ErrBody("updateErr.message"))

\* the database runs the UPDATE and the callback runs
UpdateQuery(r, dbOk) ==
    /\ Pc(r) = "upd_query"
    /\ LET q == reqs[r]
           id == q.in.id
           u == q.loc.updates
           code == UpdateErrorCode(id, u, dbOk)
       IN IF code = "OK"
          THEN /\ registrations' =
                    IF Found(id)
                    THEN [registrations EXCEPT ![id] = ApplyUpdates(registrations[id], u)]
                    ELSE registrations
               /\ reqs' = [reqs EXCEPT ![r] = [q EXCEPT !.pc = "done",
                    !.res = Resp(200, [message |-> "Student updated successfully",
                                       profilePictureUrl |-> u.profilePictureUrl])]]
          ELSE /\ UNCHANGED registrations
               /\ reqs' = [reqs EXCEPT ![r] =
                    IF q.loc.file.present
                    THEN [q EXCEPT !.pc = "upd_unlink_new", !.loc.err = code,
                                   !.loc.then = UpdateError(code)]
                    ELSE [q EXCEPT !.pc = "done", !.loc.err = code,
                                   !.res = UpdateError(code)]]
    /\ UNCHANGED <<admins, autoInc, files>>

\* await FileUtils.deleteFile(req.file.path) resolves and the handler answers
UpdateUnlinkNew(r, ioOk) ==
    /\ Pc(r) = "upd_unlink_new"
    /\ files' = deleteFile(reqs[r].loc.file.path, ioOk)
    /\ reqs' = [reqs EXCEPT ![r].pc = "done", ![r].res = reqs[r].loc.then]
    /\ UNCHANGED <<registrations, admins, autoInc>>

(***************************************************************************)
(* GET /api/students/:id                                                   *)
(***************************************************************************)
Read(r, in) ==
    /\ Arrives(r)
    /\ authenticateAdmin(in.cred)
    /\ reqs' = [reqs EXCEPT ![r] =
            [IdleReq EXCEPT !.kind = "read", !.pc = "read_select", !.in = in]]
    /\ UNCHANGED <<registrations, admins, autoInc, files>>

\* the columns the SELECT of the single read lists: all but password
\* the row with every column, as SELECT * returns it
StudentDataWithPassword(id, row) ==
    [id |-> id, firstName |-> row.firstName, lastName |-> row.lastName,
     email |-> row.email, phone |-> row.phone, courses |-> row.courses,
     profilePictureUrl |-> row.profilePictureUrl, is_active |-> row.is_active,
     last_login |-> row.last_login, updated_at |-> row.updated_at,
     password |-> row.password]

StudentData(id, row) ==
    [id |-> id, firstName |-> row.firstName, lastName |-> row.lastName,
     email |-> row.email, phone |-> row.phone, courses |-> row.courses,
     profilePictureUrl |-> row.profilePictureUrl, is_active |-> row.is_active,
     last_login |-> row.last_login, updated_at |-> row.updated_at]

ReadSelect(r, dbOk) ==
    /\ Pc(r) = "read_select"
    /\ LET id == reqs[r].in.id
       IN reqs' =
            IF ~dbOk THEN Answer(r, 500, ErrBody("Database error"))
            ELSE IF ~Found(id) THEN Answer(r, 404, ErrBody("Student not found"))
            ELSE Answer(r, 200, StudentData(id, registrations[id]))
    /\ UNCHANGED <<registrations, admins, autoInc, files>>

(***************************************************************************)
(* Text of query parameters and of columns.  TLC's strings have Len, \o    *)
(* and SubSeq, which is what the operators below are built from.           *)
(***************************************************************************)
Char(s, i) == SubSeq(s, i, i)
Rest(s) == SubSeq(s, 2, Len(s))

UpperLetters == "ABCDEFGHIJKLMNOPQRSTUVWXYZ"
LowerLetters == "abcdefghijklmnopqrstuvwxyz"

\* the position of character c in text s, 0 when it is not there
Position(c, s) ==
    IF \E i \in 1..Len(s) : Char(s, i) = c
    THEN CHOOSE i \in 1..Len(s) : Char(s, i) = c
    ELSE 0

UpperChar(c) ==
    IF Position(c, LowerLetters) # 0
    THEN Char(UpperLetters, Position(c, LowerLetters)) ELSE c
LowerChar(c) ==
    IF Position(c, UpperLetters) # 0
    THEN Char(LowerLetters, Position(c, UpperLetters)) ELSE c

\* String.prototype.toUpperCase, on ASCII text
RECURSIVE toUpperCase(_)
toUpperCase(s) ==
    IF s = "" THEN "" ELSE UpperChar(Char(s, 1)) \o toUpperCase(Rest(s))

\* text LIKE pattern under the table's case-insensitive default collation:
\* % matches any run of characters and _ any one character
RECURSIVE Like(_, _)
Like(text, pattern) ==
    IF pattern = "" THEN text = ""
    ELSE IF Char(pattern, 1) = "%"
    THEN \E k \in 0..Len(text) :
            Like(SubSeq(text, k + 1, Len(text)), Rest(pattern))
    ELSE /\ text # ""
         /\ \/ Char(pattern, 1) = "_"
            \/ LowerChar(Char(pattern, 1)) = LowerChar(Char(text, 1))
         /\ Like(Rest(text), Rest(pattern))

\* JavaScript numbers as the handler meets them: an integer, or NaN
Number(n) == [nan |-> FALSE, n |-> n]
NaN == [nan |-> TRUE, n |-> 0]

DecimalDigits == "0123456789"
IsDigit(c) == Position(c, DecimalDigits) # 0

\* the value of a run of decimal digits
RECURSIVE DigitsValue(_)
DigitsValue(s) ==
    IF s = "" THEN 0
    ELSE 10 * DigitsValue(SubSeq(s, 1, Len(s) - 1))
            + (Position(Char(s, Len(s)), DecimalDigits) - 1)

\* the longest prefix of s made of decimal digits
RECURSIVE LeadingDigits(_)
LeadingDigits(s) ==
    IF s = "" \/ ~IsDigit(Char(s, 1)) THEN ""
    ELSE Char(s, 1) \o LeadingDigits(Rest(s))

\* parseInt(v) for a number the handler defaulted or for a query string
parseInt(v) ==
    IF v.type = "number" THEN Number(v.n)
    ELSE IF v.type = "string" /\ LeadingDigits(v.val) # ""
    THEN Number(DigitsValue(LeadingDigits(v.val)))
    ELSE NaN

\* the number an arithmetic operator makes of v: the whole string has to be
\* a numeral, and the empty string is 0
ToNumber(v) ==
    IF v.type = "number" THEN Number(v.n)
    ELSE IF v.type = "string" /\ LeadingDigits(v.val) = v.val
    THEN Number(DigitsValue(v.val))
    ELSE NaN

Minus(a, b) == IF a.nan \/ b.nan THEN NaN ELSE Number(a.n - b.n)
Times(a, b) == IF a.nan \/ b.nan THEN NaN ELSE Number(a.n * b.n)

\* Math.floor in place of Math.ceil
FloorDiv(a, b) ==
    IF a.nan \/ b.nan \/ b.n = 0 THEN NaN
    ELSE Number(a.n \div b.n)

\* Math.ceil(a / b) as JSON.stringify shows it: NaN and Infinity are null
CeilDiv(a, b) ==
    IF a.nan \/ b.nan \/ b.n = 0 THEN NaN
    ELSE Number((a.n + b.n - 1) \div b.n)

(***************************************************************************)
(* GET /api/students: the listing.  The handler builds two statements, a   *)
(* COUNT and a SELECT with ORDER BY, LIMIT and OFFSET, and sends the       *)
(* second from the callback of the first.                                  *)
(***************************************************************************)
\* a number in place of a query string: the default of a missing parameter
JsNumber(n) == [type |-> "number", val |-> "", n |-> n]

\* const { page = 1, limit = 10, search = '', sort = 'id', order = 'ASC' }
Default(v, d) == IF v.type = "undefined" THEN d ELSE v

allowedSortFields ==
    {"id", "firstName", "lastName", "email", "age", "created_at", "last_login"}

\* the requested column taken as it comes
sortFieldAsRequested(sort) ==
    IF sort.type = "string" THEN sort.val ELSE "id"

\* allowedSortFields.includes(sort) ? sort : 'id'
sortField(sort) ==
    IF sort.type = "string" /\ sort.val \in allowedSortFields THEN sort.val ELSE "id"

\* order.toUpperCase() === 'DESC' ? 'DESC' : 'ASC', for a string
sortOrder(order) == IF toUpperCase(order.val) = "DESC" THEN "DESC" ELSE "ASC"

\* the WHERE clause: no filter, or the three LIKEs on %search%
Matches(row, searchTerm) ==
    \/ searchTerm = ""
    \/ Like(row.firstName, searchTerm)
    \/ Like(row.lastName, searchTerm)
    \/ Like(row.email, searchTerm)

Matching(searchTerm) ==
    {i \in DOMAIN registrations : Matches(registrations[i], searchTerm)}

\* the order of the collation on the characters that occur in text columns
CollationOrder == " %-.0123456789@_abcdefghijklmnopqrstuvwxyz"

RECURSIVE TextLess(_, _)
TextLess(a, b) ==
    IF b = "" THEN FALSE
    ELSE IF a = "" THEN TRUE
    ELSE LET x == Position(LowerChar(Char(a, 1)), CollationOrder)
             y == Position(LowerChar(Char(b, 1)), CollationOrder)
         IN IF x # y THEN x < y ELSE TextLess(Rest(a), Rest(b))

\* row i sorts strictly before row j under ORDER BY field ASC.  The columns
\* age and created_at are not among the columns of the rows here: every two
\* rows tie on them, and the server may return ties in any order.
Before(field, i, j) ==
    LET a == registrations[i]
        b == registrations[j]
    IN CASE field = "id" -> i < j
         [] field = "firstName" -> TextLess(a.firstName, b.firstName)
         [] field = "lastName" -> TextLess(a.lastName, b.lastName)
         [] field = "email" -> TextLess(a.email, b.email)
         [] field = "last_login" -> (~a.last_login /\ b.last_login)
         [] OTHER -> FALSE

\* the orders in which the server may return the rows ids
OrderedBy(ids, field, dir) ==
    LET n == Cardinality(ids)
    IN { p \in [1..n -> ids] :
            /\ \A x, y \in 1..n : x # y => p[x] # p[y]
            /\ \A x, y \in 1..n : x < y =>
                    IF dir = "DESC" THEN ~Before(field, p[x], p[y])
                                    ELSE ~Before(field, p[y], p[x]) }

\* LIMIT count OFFSET offset of a result
Slice(p, count, offset) ==
    LET last == IF offset + count < Len(p) THEN offset + count ELSE Len(p)
    IN SubSeq(p, offset + 1, last)

\* the server refuses LIMIT ? OFFSET ? unless both are non-negative integers
LimitOk(limit, offset) == ~limit.nan /\ ~offset.nan /\ limit.n >= 0 /\ offset.n >= 0

\* the handler builds its statements and sends the COUNT; order.toUpperCase
\* throws when order is not a string and the error middleware answers
List(r, in) ==
    /\ Arrives(r)
    /\ authenticateAdmin(in.cred)
    /\ LET page == Default(in.page, JsNumber(1))
           limit == Default(in.limit, JsNumber(10))
           search == Default(in.search, Str(""))
           sort == Default(in.sort, Str("id"))
           order == Default(in.order, Str("ASC"))
           start == [IdleReq EXCEPT !.kind = "list", !.in = in]
       IN reqs' = [reqs EXCEPT ![r] =
            IF order.type # "string"
            THEN [start EXCEPT !.pc = "done",
                    !.loc = [searchTerm |-> "", sortField |-> "", sortOrder |-> "",
                             limit |-> NaN, offset |-> NaN,
                             total |-> 0, totalPages |-> NaN],
                    !.res = Resp(500, ErrBody("Internal server error"))]
            ELSE [start EXCEPT !.pc = "list_count",
                    !.loc = [searchTerm |->
                                IF Falsy(search) THEN "" ELSE "%" \o search.val \o "%",
                             sortField |-> sortField(sort),
                             sortOrder |-> sortOrder(order),
                             limit |-> parseInt(limit),
                             offset |-> Times(Minus(ToNumber(page), Number(1)),
                                              ToNumber(limit)),
                             total |-> 0, totalPages |-> NaN]]]
    /\ UNCHANGED <<registrations, admins, autoInc, files>>

\* the COUNT's callback: total and totalPages are fixed, the SELECT is sent
ListCount(r, dbOk) ==
    /\ Pc(r) = "list_count"
    /\ LET q == reqs[r]
           total == Cardinality(Matching(q.loc.searchTerm))
           limit == Default(q.in.limit, JsNumber(10))
       IN reqs' = [reqs EXCEPT ![r] =
            IF ~dbOk
            THEN [q EXCEPT !.pc = "done", !.res = Resp(500, ErrBody("Database error"))]
            ELSE [q EXCEPT !.pc = "list_data", !.loc.total = total,
                           !.loc.totalPages = CeilDiv(Number(total), ToNumber(limit))]]
    /\ UNCHANGED <<registrations, admins, autoInc, files>>

\* a body whose total is the number of rows read, not the COUNT's result
ListBodyRecount(q, p) ==
    [students |-> [k \in DOMAIN p |-> StudentData(p[k], registrations[p[k]])],
     total |-> Len(p),
     totalPages |-> CeilDiv(Number(Len(p)), ToNumber(Default(q.in.limit, JsNumber(10)))),
     currentPage |-> parseInt(Default(q.in.page, JsNumber(1))),
     limit |-> parseInt(Default(q.in.limit, JsNumber(10)))]

ListBody(q, p) ==
    [students |-> [k \in DOMAIN p |-> StudentData(p[k], registrations[p[k]])],
     total |-> q.loc.total,
     totalPages |-> q.loc.totalPages,
     currentPage |-> parseInt(Default(q.in.page, JsNumber(1))),
     limit |-> parseInt(Default(q.in.limit, JsNumber(10)))]

\* the SELECT runs on the table as it is now and its callback answers
ListData(r, dbOk) ==
    /\ Pc(r) = "list_data"
    /\ LET q == reqs[r]
       IN IF ~dbOk \/ ~LimitOk(q.loc.limit, q.loc.offset)
          THEN reqs' = Answer(r, 500, ErrBody("Database error"))
          ELSE \E p \in OrderedBy(Matching(q.loc.searchTerm),
                                  q.loc.sortField, q.loc.sortOrder) :
                    reqs' = Answer(r, 200,
                        ListBody(q, Slice(p, q.loc.limit.n, q.loc.offset.n)))
    /\ UNCHANGED <<registrations, admins, autoInc, files>>

(***************************************************************************)
(* GET /api/students/export/csv                                            *)
(***************************************************************************)
\* Array.prototype.join
RECURSIVE Join(_, _)
Join(seq, sep) ==
    IF seq = <<>> THEN ""
    ELSE IF Len(seq) = 1 THEN seq[1]
    ELSE seq[1] \o sep \o Join(Tail(seq), sep)

\* `"${value}"`: the value between two double quotes, as it is
Quoted(value) == "\"" \o value \o "\""

csvHeaders ==
    <<"ID", "First Name", "Last Name", "Email", "Phone", "Age", "Education",
      "Experience", "Courses", "Motivation", "Status", "Last Login",
      "Registration Date">>

\* new Date(t).toLocaleString() and toLocaleDateString() in the en-US locale
\* Node starts with: the date, and for toLocaleString a comma and the time
toLocaleDateString == "11/5/2026"
toLocaleString == toLocaleDateString \o ", 4:30:00 AM"

\* the array the handler makes of a student; age, education, experience and
\* motivation are NULL in the rows here
csvRow(id, row) ==
    <<ToString(id),
      Quoted(row.firstName), Quoted(row.lastName), Quoted(row.email),
      Quoted(row.phone), "", Quoted(""), Quoted(""),
      Quoted(IF row.coursesNull THEN "null" ELSE Join(row.courses, ", ")),
      Quoted(""),
      IF row.is_active THEN "Active" ELSE "Inactive",
      IF row.last_login THEN toLocaleString ELSE "Never",
      toLocaleDateString>>

\* [headers, ...csvData].map(row => row.join(',')).join('\n')
csvContent(p) ==
    Join(<<Join(csvHeaders, ",")>>
            \o [k \in DOMAIN p |-> Join(csvRow(p[k], registrations[p[k]]), ",")],
         "\n")

Csv(r, in) ==
    /\ Arrives(r)
    /\ authenticateAdmin(in.cred)
    /\ reqs' = [reqs EXCEPT ![r] =
            [IdleReq EXCEPT !.kind = "csv", !.pc = "csv_select", !.in = in,
                            !.loc = [result |-> <<>>]]]
    /\ UNCHANGED <<registrations, admins, autoInc, files>>

\* the SELECT ... ORDER BY created_at DESC runs and its callback answers
CsvSelect(r, dbOk) ==
    /\ Pc(r) = "csv_select"
    /\ IF ~dbOk
       THEN reqs' = Answer(r, 500, ErrBody("Database error"))
       ELSE \E p \in OrderedBy(DOMAIN registrations, "created_at", "DESC") :
                reqs' = [reqs EXCEPT ![r].pc = "done", ![r].loc.result = p,
                                     ![r].res = Resp(200, [csv |-> csvContent(p)])]
    /\ UNCHANGED <<registrations, admins, autoInc, files>>

(***************************************************************************)
(* GET /api/students/export/pdf.  The SELECT returns the 100 newest rows;  *)
(* created_at is the time of the INSERT, which does not decrease with the  *)
(* id, and rows of one second are taken here by descending id.  The        *)
(* callback writes the title block, the header line at doc.y and one line  *)
(* of six cells for each row.  doc.y after the title block is a value of   *)
(* pdfkit's text layout; the model takes it from HeaderYs.                 *)
(***************************************************************************)
\* LIMIT 100
PdfLimit == 100

\* yPosition > 700 starts a page
PageBreakAt == 700

\* yPosition = 50 on a new page
TopOfPage == 50

\* yPosition += 25 after the header line
HeaderHeight == 25

\* yPosition += 20 after a row
RowHeight == 20

\* doc.y below the title, the date and the count of students
HeaderYs == 150..180

\* s.substring(0, n)
Substring(s, n) == SubSeq(s, 1, IF Len(s) < n THEN Len(s) ELSE n)

\* ORDER BY created_at DESC LIMIT 100
Newest(ids) ==
    LET last == autoInc.registrations - 1
        Stored(i) == i \in ids
        all == SelectSeq([k \in 1..last |-> last + 1 - k], Stored)
    IN SubSeq(all, 1, IF Len(all) < PdfLimit THEN Len(all) ELSE PdfLimit)

\* a page is started one row too late
NewPageNeededLate(yPosition) == yPosition > PageBreakAt + RowHeight

\* if (yPosition > 700)
NewPageNeeded(yPosition) == yPosition > PageBreakAt

\* the six cells of a student's line
rowData(id, student) ==
    <<ToString(id),
      Substring(student.firstName \o " " \o student.lastName, 12),
      Substring(student.email, 15),
      IF student.phone = "" THEN "N/A" ELSE student.phone,
      IF student.is_active THEN "Active" ELSE "Inactive",
      Substring(IF student.coursesNull THEN "No courses"
                ELSE Join(SubSeq(student.courses, 1,
                                 IF Len(student.courses) < 2
                                 THEN Len(student.courses) ELSE 2), ", "), 20)>>

\* result.forEach: the lines drawn for result[k..], the k-th at yPosition on
\* page unless a new page is needed first
RECURSIVE drawRows(_, _, _, _)
drawRows(result, k, page, yPosition) ==
    IF k > Len(result) THEN <<>>
    ELSE LET fresh == NewPageNeeded(yPosition)
             at == IF fresh THEN page + 1 ELSE page
             y == IF fresh THEN TopOfPage ELSE yPosition
         IN <<[id |-> result[k], page |-> at, y |-> y,
               cells |-> rowData(result[k], registrations[result[k]])]>>
            \o drawRows(result, k + 1, at, y + RowHeight)

\* the document piped into the response
pdfDocument(result, docY) ==
    LET rows == drawRows(result, 1, 1, docY + HeaderHeight)
    IN [total |-> Len(result), headerY |-> docY, rows |-> rows,
        pages |-> IF rows = <<>> THEN 1 ELSE rows[Len(rows)].page]

Pdf(r, in) ==
    /\ Arrives(r)
    /\ authenticateAdmin(in.cred)
    /\ reqs' = [reqs EXCEPT ![r] =
            [IdleReq EXCEPT !.kind = "pdf", !.pc = "pdf_select", !.in = in,
                            !.loc = [result |-> <<>>]]]
    /\ UNCHANGED <<registrations, admins, autoInc, files>>

\* the SELECT runs and its callback writes the document and ends it; docYs
\* are the positions doc.y may have below the title block
PdfSelect(r, dbOk, docYs) ==
    /\ Pc(r) = "pdf_select"
    /\ IF ~dbOk
       THEN reqs' = Answer(r, 500, ErrBody("Database error"))
       ELSE \E docY \in docYs :
                LET result == Newest(DOMAIN registrations)
                IN reqs' = [reqs EXCEPT ![r].pc = "done", ![r].loc.result = result,
                                ![r].res = Resp(200, [pdf |-> pdfDocument(result, docY)])]
    /\ UNCHANGED <<registrations, admins, autoInc, files>>

(***************************************************************************)
(* GET /api/files/cleanup and FileUtils.cleanupOrphanedFiles.  The         *)
(* directory is read when the request arrives; the SELECT of the URLs the  *)
(* rows hold runs later, and its callback removes the listed files no URL  *)
(* names.  fs.unlinkSync throws for a file that is gone, which ends the    *)
(* loop; the order of the loop is the order readdirSync lists the files.   *)
(***************************************************************************)
\* fs.readdirSync(uploadsDir): the names of the files of the directory
readdirSync ==
    {SubSeq(f, Len(Normalize(uploadsDir)) + 2, Len(f)) :
        f \in {g \in files : Len(g) = Len(Normalize(uploadsDir)) + 2
                              /\ SubSeq(g, 1, Len(Normalize(uploadsDir)))
                                    = Normalize(uploadsDir)}}

\* results.map(row => row.profilePictureUrl.replace('/uploads/', ''))
dbFiles ==
    {ReplaceFirst(registrations[i].profilePictureUrl, <<"/", "uploads", "/">>) :
        i \in {k \in DOMAIN registrations : registrations[k].profilePictureUrl # NULL}}

\* files.filter(file => file !== '.gitkeep' && !dbFiles.includes(file))
orphanedFiles(listed) == listed \ dbFiles

\* the orders in which a set of names can be listed
Listings(names) ==
    {p \in [1..Cardinality(names) -> names] :
        \A x, y \in 1..Cardinality(names) : x # y => p[x] # p[y]}

\* the names of a listing before the first one whose file is gone
RECURSIVE Unlinked(_)
Unlinked(p) ==
    IF p = <<>> THEN {}
    ELSE IF PathJoin(uploadsDir, Head(p)) \notin files THEN {}
    ELSE {Head(p)} \cup Unlinked(Tail(p))

Cleanup(r, in) ==
    /\ Arrives(r)
    /\ authenticateAdmin(in.cred)
    /\ reqs' = [reqs EXCEPT ![r] =
            [IdleReq EXCEPT !.kind = "cleanup", !.pc = "cleanup_select", !.in = in,
                            !.loc = [files |-> readdirSync]]]
    /\ UNCHANGED <<registrations, admins, autoInc, files>>

\* the SELECT's callback settles the promise; the orphaned files are
\* removed and the count is answered, 0 after any error
CleanupSelect(r, dbOk) ==
    /\ Pc(r) = "cleanup_select"
    /\ LET done(n) == Answer(r, 200, [message |-> "File cleanup completed",
                                      orphanedFilesRemoved |-> n])
           orphaned == orphanedFiles(reqs[r].loc.files)
       IN IF ~dbOk
          THEN reqs' = done(0) /\ UNCHANGED files
          ELSE \E p \in Listings(orphaned) :
                  LET gone == Unlinked(p)
                  IN /\ files' = files \ {PathJoin(uploadsDir, f) : f \in gone}
                     /\ reqs' = done(IF gone = orphaned THEN Cardinality(orphaned)
                                     ELSE 0)
    /\ UNCHANGED <<registrations, admins, autoInc>>

(***************************************************************************)
(* Database initialisation at startup (the pool version of the server).    *)
(* The startup is a process of its own; it takes a slot of reqs, with pc   *)
(* its position and loc the variables of the closures: completed, the      *)
(* index queries that have not called back, what each one reported, the    *)
(* outcome of the table creation and the number of times                   *)
(* createDatabaseViewsAndProcedures was called.                            *)
(***************************************************************************)
\* const totalIndexes = indexes.length
totalIndexes == 5

\* errno of a CREATE INDEX: 0 for none, 1061 for an index that exists, or
\* another error
IndexErrnos == {0, 1061, 1064}

\* any callback counts as the last
AnyCompleted(completed) == completed >= 1

\* if (completed === totalIndexes)
AllCompleted(completed) == completed = totalIndexes

Starting ==
    [kind |-> "startup", pc |-> "connect", in |-> [none |-> TRUE],
     loc |-> [railway |-> FALSE, tables |-> "none", completed |-> 0,
              pending |-> {}, errno |-> [i \in {} |-> 0], views |-> 0],
     res |-> NoResp]

\* db.getConnection's callback: without a connection nothing is initialised;
\* with one, the Railway or the local initialisation sends its first query
getConnection(r, connected, railway) ==
    /\ Pc(r) = "connect"
    /\ reqs' = [reqs EXCEPT ![r].pc = IF ~connected THEN "done"
                                     ELSE IF railway THEN "create_database"
                                     ELSE "setup",
                            ![r].loc.railway = railway]
    /\ UNCHANGED <<registrations, admins, autoInc, files>>

\* initializeRailwayDatabase: the callback of CREATE DATABASE goes on to
\* initializeDatabaseTables whether the query failed or not
initializeRailwayDatabase(r, dbOk) ==
    /\ Pc(r) = "create_database"
    /\ reqs' = [reqs EXCEPT ![r].pc = "setup"]
    /\ UNCHANGED <<registrations, admins, autoInc, files>>

\* the callback of setupSQL in initializeDatabase / initializeDatabaseTables:
\* on success the default admin is there and createAdditionalIndexes sends
\* the five CREATE INDEX queries
initializeDatabase(r, dbOk) ==
    /\ Pc(r) = "setup"
    /\ IF dbOk
       THEN /\ reqs' = [reqs EXCEPT ![r].pc = "indexes", ![r].loc.tables = "created",
                                    ![r].loc.pending = 1..totalIndexes]
            /\ admins' = IF admins = <<>> THEN (1 :> SeedAdmin) ELSE admins
            /\ autoInc' = [autoInc EXCEPT !.admins = IF admins = <<>> THEN 2 ELSE @]
       ELSE /\ reqs' = [reqs EXCEPT ![r].pc = "done", ![r].loc.tables = "failed"]
            /\ UNCHANGED <<admins, autoInc>>
    /\ UNCHANGED <<registrations, files>>

\* the callback of the i-th CREATE INDEX
createAdditionalIndexes(r, i, errno) ==
    /\ Pc(r) \in {"indexes", "views", "done"}
    /\ reqs[r].kind = "startup"
    /\ i \in reqs[r].loc.pending
    /\ LET q == reqs[r]
           completed == q.loc.completed + 1
           last == AllCompleted(completed)
       IN reqs' = [reqs EXCEPT ![r] =
            [q EXCEPT !.pc = IF last THEN "views" ELSE @,
                      !.loc.completed = completed,
                      !.loc.pending = @ \ {i},
                      !.loc.errno = (i :> errno) @@ @,
                      !.loc.views = IF last THEN @ + 1 ELSE @]]
    /\ UNCHANGED <<registrations, admins, autoInc, files>>

\* the callback of the query of createDatabaseViewsAndProcedures
createDatabaseViewsAndProcedures(r, dbOk) ==
    /\ Pc(r) = "views"
    /\ reqs[r].kind = "startup"
    /\ reqs' = [reqs EXCEPT ![r].pc = "done"]
    /\ UNCHANGED <<registrations, admins, autoInc, files>>

(***************************************************************************)
(* POST /api/students/login and POST /api/admins/login                     *)
(***************************************************************************)
FailBody(msg) == [success |-> FALSE, error |-> msg]

InvalidCredentials == Resp(401, FailBody("Invalid email or password"))

\* SELECT * FROM <table> WHERE email = ? AND is_active = TRUE
\* a lookup by email alone
AnyByEmail(table, email) == {i \in Ids(table) : table[i].email = email}

ActiveByEmail(table, email) ==
    {i \in Ids(table) : table[i].email = email /\ table[i].is_active}

\* result[0]
First(ids) == CHOOSE i \in ids : \A j \in ids : i <= j

\* the handler's locals: the id and the password column of the row the
\* SELECT returned (id 0: no row)
NoPrincipal == [id |-> 0, password |-> Raw("")]

\* the handler up to its SELECT
StudentLogin(r, in) ==
    /\ Arrives(r)
    /\ reqs' = [reqs EXCEPT ![r] =
            IF Falsy(Str(in.email)) \/ Falsy(in.password)
            THEN [IdleReq EXCEPT !.kind = "slogin", !.pc = "done", !.in = in,
                    !.loc = NoPrincipal,
                    !.res = Resp(400, FailBody("Email and password are required"))]
            ELSE [IdleReq EXCEPT !.kind = "slogin", !.pc = "login_select", !.in = in,
                    !.loc = NoPrincipal]]
    /\ UNCHANGED <<registrations, admins, autoInc, files>>

AdminLogin(r, in) ==
    /\ Arrives(r)
    /\ reqs' = [reqs EXCEPT ![r] =
            IF Falsy(Str(in.email)) \/ Falsy(in.password)
            THEN [IdleReq EXCEPT !.kind = "alogin", !.pc = "done", !.in = in,
                    !.loc = NoPrincipal,
                    !.res = Resp(400, FailBody("Email and password are required"))]
            ELSE [IdleReq EXCEPT !.kind = "alogin", !.pc = "login_select", !.in = in,
                    !.loc = NoPrincipal]]
    /\ UNCHANGED <<registrations, admins, autoInc, files>>

\* const { password: _, ...adminData } = admin
AdminData(id, row) ==
    [id |-> id, first_name |-> row.first_name, last_name |-> row.last_name,
     email |-> row.email, role |-> row.role, is_active |-> row.is_active,
     last_login |-> row.last_login]

\* a login that lets every password of a known principal in
LoginAnswerAnyPassword(q, found, stored, data, token) ==
    IF ~found THEN InvalidCredentials
    ELSE Resp(200, [success |-> TRUE, message |-> "Login successful",
                    principal |-> data, token |-> token])

\* the answer of the SELECT's callback of a login: no row, then
\* bcrypt.compare(password, row.password) rejecting, false or true.  `data`
\* is the row without its password.
LoginAnswer(q, found, stored, data, token) ==
    IF ~found THEN InvalidCredentials
    ELSE IF CompareRejects(q.in.password)
    THEN Resp(500, FailBody("Authentication error"))
    ELSE IF ~Compare(q.in.password, stored) THEN InvalidCredentials
    ELSE Resp(200, [success |-> TRUE, message |-> "Login successful",
                    principal |-> data, token |-> token])

\* The SELECT's callback.  await bcrypt.compare reads the row the SELECT
\* returned and nothing else, so it is part of this step.  On success the
\* UPDATE of last_login is sent, without a callback, and the answer follows
\* at once.
StudentLoginSelect(r, dbOk) ==
    /\ Pc(r) = "login_select" /\ reqs[r].kind = "slogin"
    /\ LET q == reqs[r]
           hit == ActiveByEmail(registrations, q.in.email)
           id == IF hit = {} THEN 0 ELSE First(hit)
           row == registrations[id]
           ans == IF hit = {}
                  THEN LoginAnswer(q, FALSE, Raw(""), [id |-> 0], "")
                  ELSE LoginAnswer(q, TRUE, row.password, StudentData(id, row),
                                   "student-auth-token")
       IN reqs' = [reqs EXCEPT ![r] =
            IF ~dbOk
            THEN [q EXCEPT !.pc = "done", !.res = Resp(500, FailBody("Database error"))]
            ELSE [q EXCEPT !.pc = IF ans.status = 200 THEN "login_touch" ELSE "done",
                           !.loc = [id |-> id, password |-> IF hit = {} THEN Raw("")
                                                            ELSE row.password],
                           !.res = ans]]
    /\ UNCHANGED <<registrations, admins, autoInc, files>>

AdminLoginSelect(r, dbOk) ==
    /\ Pc(r) = "login_select" /\ reqs[r].kind = "alogin"
    /\ LET q == reqs[r]
           hit == ActiveByEmail(admins, q.in.email)
           id == IF hit = {} THEN 0 ELSE First(hit)
           row == admins[id]
           ans == IF hit = {}
                  THEN LoginAnswer(q, FALSE, Raw(""), [id |-> 0], "")
                  ELSE LoginAnswer(q, TRUE, row.password, AdminData(id, row),
                                   "admin-auth-token")
       IN reqs' = [reqs EXCEPT ![r] =
            IF ~dbOk
            THEN [q EXCEPT !.pc = "done", !.res = Resp(500, FailBody("Database error"))]
            ELSE [q EXCEPT !.pc = IF ans.status = 200 THEN "login_touch" ELSE "done",
                           !.loc = [id |-> id, password |-> IF hit = {} THEN Raw("")
                                                            ELSE row.password],
                           !.res = ans]]
    /\ UNCHANGED <<registrations, admins, autoInc, files>>

\* the database runs UPDATE registrations SET last_login = NOW() WHERE id = ?
\* (updated_at follows, ON UPDATE CURRENT_TIMESTAMP); its outcome is not read
StudentLoginTouch(r, dbOk) ==
    /\ Pc(r) = "login_touch" /\ reqs[r].kind = "slogin"
    /\ LET id == reqs[r].loc.id
       IN registrations' =
            IF dbOk /\ Found(id)
            THEN [registrations EXCEPT ![id].last_login = TRUE,
                                       ![id].updated_at = "updated"]
            ELSE registrations
    /\ reqs' = [reqs EXCEPT ![r].pc = "done"]
    /\ UNCHANGED <<admins, autoInc, files>>

AdminLoginTouch(r, dbOk) ==
    /\ Pc(r) = "login_touch" /\ reqs[r].kind = "alogin"
    /\ LET id == reqs[r].loc.id
       IN admins' =
            IF dbOk /\ id \in Ids(admins)
            THEN [admins EXCEPT ![id].last_login = TRUE]
            ELSE admins
    /\ reqs' = [reqs EXCEPT ![r].pc = "done"]
    /\ UNCHANGED <<registrations, autoInc, files>>

(***************************************************************************)
(* POST /api/admins/register                                               *)
(***************************************************************************)
AdminRegister(r, in) ==
    /\ Arrives(r)
    /\ LET missing == Falsy(Str(in.first_name)) \/ Falsy(Str(in.last_name))
                        \/ Falsy(Str(in.email)) \/ Falsy(in.password)
           start == [IdleReq EXCEPT !.kind = "aregister", !.in = in,
                        !.loc = [hashedPassword |-> Raw(""), err |-> ""]]
       IN reqs' = [reqs EXCEPT ![r] =
            IF missing
            THEN [start EXCEPT !.pc = "done",
                    !.res = Resp(400, FailBody("All fields are required"))]
            ELSE [start EXCEPT !.pc = "areg_hash"]]
    /\ UNCHANGED <<registrations, admins, autoInc, files>>

\* await bcrypt.hash settles; on success the INSERT is sent
AdminRegisterHash(r) ==
    /\ Pc(r) = "areg_hash"
    /\ LET q == reqs[r]
       IN reqs' = [reqs EXCEPT ![r] =
            IF HashRejects(q.in.password)
            THEN [q EXCEPT !.pc = "done",
                    !.res = Resp(500, FailBody("Error processing admin registration"))]
            ELSE [q EXCEPT !.pc = "areg_insert",
                           !.loc.hashedPassword = Hash(q.in.password.val)]]
    /\ UNCHANGED <<registrations, admins, autoInc, files>>

NewAdmin(q) ==
    [first_name |-> q.in.first_name, last_name |-> q.in.last_name,
     email |-> q.in.email, password |-> q.loc.hashedPassword,
     role |-> q.in.role, is_active |-> TRUE, last_login |-> FALSE]

AdminInsertError(code) ==
    IF code = "ER_DUP_ENTRY"
    THEN Resp(409, FailBody("Email already registered"))
    ELSE Resp(500, FailBody("sqlMessage"))

AdminRegisterInsert(r, dbOk) ==
    /\ Pc(r) = "areg_insert"
    /\ LET q == reqs[r]
           id == autoInc.admins
           code == IF ~dbOk THEN "ER_OTHER"
                   ELSE IF DupEntry(admins, q.in.email, 0) THEN "ER_DUP_ENTRY"
                   ELSE "OK"
       IN IF code = "OK"
          THEN /\ admins' = (id :> NewAdmin(q)) @@ admins
               /\ autoInc' = [autoInc EXCEPT !.admins = id + 1]
               /\ reqs' = [reqs EXCEPT ![r] = [q EXCEPT !.pc = "done",
                    !.res = Resp(200, [success |-> TRUE,
                                       message |-> "Admin registered successfully",
                                       adminId |-> id,
                                       first_name |-> q.in.first_name,
                                       last_name |-> q.in.last_name,
                                       email |-> q.in.email, role |-> q.in.role])]]
          ELSE /\ UNCHANGED <<admins, autoInc>>
               /\ reqs' = [reqs EXCEPT ![r] =
                    [q EXCEPT !.pc = "done", !.loc.err = code,
                              !.res = AdminInsertError(code)]]
    /\ UNCHANGED <<registrations, files>>

(***************************************************************************)
(* Specifications.                                                         *)
(***************************************************************************)
Image == FilePart("image/png", 1024)
\* uploads the file filter and the size limit refuse
TextFile == FilePart("text/plain", 1024)
BigImage == FilePart("image/png", 6000000)

RegInputs(firsts, emails, pwds, fileParts) ==
    [firstName : firsts, lastName : {"Lee"}, email : emails, phone : {"555"},
     password : pwds, courses : {Str("c1")}, file : fileParts]

RegisterSteps(r, dbOut, ioOut) ==
    \/ RegisterHash(r)
    \/ \E dbOk \in dbOut : RegisterInsert(r, dbOk)
    \/ \E ioOk \in ioOut : RegisterUnlink(r, ioOk)

\* registrations only, every field present
NextReg ==
    \E r \in ReqNumbers :
        \/ \E in \in RegInputs({"Ann"}, {"a@x", "b@x"}, {Str("p1")}, {NoFile, Image}) :
                Register(r, in)
        \/ RegisterSteps(r, BOOLEAN, BOOLEAN)

SpecReg == Init /\ [][NextReg]_vars

\* the tables and the upload directory of InitSeeded, as two registrations
\* leave them
SeededIsReached ==
    /\ registrations = SeededRegistrations
    /\ files = SeededFiles
    /\ autoInc = [registrations |-> 3, admins |-> 2]
    /\ admins = (1 :> SeedAdmin)

Token == "admin-auth-token"

DeleteInputs(ids, creds) == [id : ids, cred : creds]
UpdateInputs(ids, creds, bodies, fileParts) ==
    [id : ids, cred : creds, body : bodies, file : fileParts]

DeleteSteps(r, dbOut, ioOut) ==
    \/ \E dbOk \in dbOut : DeleteSelect(r, dbOk)
    \/ \E ioOk \in ioOut : DeleteUnlink(r, ioOk)
    \/ \E dbOk \in dbOut : DeleteQuery(r, dbOk)

UpdateSteps(r, dbOut, ioOut) ==
    \/ \E dbOk \in dbOut : UpdateSelect(r, dbOk)
    \/ \E ioOk \in ioOut : UpdateUnlinkOld(r, ioOk)
    \/ \E dbOk \in dbOut : UpdateQuery(r, dbOk)
    \/ \E ioOk \in ioOut : UpdateUnlinkNew(r, ioOk)

\* registration, single read and deletion of students with and without a
\* picture
NextDelete ==
    \E r \in ReqNumbers :
        \/ \E in \in RegInputs({"Ann"}, {"c@x"}, {Str("p1")}, {NoFile, Image}) :
                Register(r, in)
        \/ RegisterSteps(r, BOOLEAN, BOOLEAN)
        \/ \E in \in DeleteInputs({1, 2, 3}, {"", Token}) : Delete(r, in)
        \/ DeleteSteps(r, BOOLEAN, BOOLEAN)
        \/ \E in \in DeleteInputs({1, 3}, {""}) : Read(r, in)
        \/ \E dbOk \in BOOLEAN : ReadSelect(r, dbOk)

SpecDelete == InitSeeded /\ [][NextDelete]_vars

UpdateBodies ==
    { EmptyBody,
      Body({"email"}, "", "b@x", "", TRUE, Undef),
      Body({"firstName", "courses", "is_active"}, "Bob", "", "", FALSE, Str("c9")) }

\* registration and update of students
NextUpdate ==
    \E r \in ReqNumbers :
        \/ \E in \in UpdateInputs({1, 2}, {Token}, UpdateBodies, {NoFile, Image}) :
                Update(r, in)
        \/ UpdateSteps(r, BOOLEAN, {TRUE})

SpecUpdate == InitSeeded /\ [][NextUpdate]_vars

\* updates that replace the picture of a student, with uploads of every sort
NextPicture ==
    \E r \in ReqNumbers :
        \/ \E in \in UpdateInputs({1, 2}, {Token}, {EmptyBody},
                                  {Image, TextFile, BigImage}) :
                Update(r, in)
        \/ UpdateSteps(r, BOOLEAN, BOOLEAN)

SpecPicture == InitSeeded /\ [][NextPicture]_vars

\* The rows three registrations without a picture leave behind.
ListedRegistrations ==
    LET row(first, last, email) ==
            [firstName |-> first, lastName |-> last, email |-> email,
             phone |-> "555", password |-> Hash("p1"), courses |-> <<"c1">>,
             coursesNull |-> FALSE,
             profilePictureUrl |-> NULL, is_active |-> TRUE,
             last_login |-> FALSE, updated_at |-> "created"]
    IN (1 :> row("Ann", "Lee", "a_x@m"))
       @@ (2 :> row("Bob", "Ray", "abx@m"))
       @@ (3 :> row("Cy", "Lee", "c@m"))

\* the table after these registrations and the deletion of any of the rows,
\* with one request to come
InitListing ==
    /\ \E ids \in SUBSET DOMAIN ListedRegistrations :
            registrations = [i \in ids |-> ListedRegistrations[i]]
    /\ admins = (1 :> SeedAdmin)
    /\ autoInc = [registrations |-> 4, admins |-> 2]
    /\ files = {}
    /\ reqs = (4 :> IdleReq)

ListInputs(pages, limits, searches, sorts, orders) ==
    [cred : {Token}, page : pages, limit : limits, search : searches,
     sort : sorts, order : orders]

ListSteps(r, dbOut) ==
    \/ \E dbOk \in dbOut : ListCount(r, dbOk)
    \/ \E dbOk \in dbOut : ListData(r, dbOk)

\* the decimal numerals of 1..n, as a query string carries them
Numerals(n) == {Str(ToString(k)) : k \in 1..n}

\* one listing of every page and page size, filtered or not, in some orders
NextPage ==
    \E r \in ReqNumbers :
        \/ \E in \in ListInputs(Numerals(MaxPage) \cup {Undef},
                                Numerals(MaxLimit) \cup {Undef},
                                {Undef, Str("lee")},
                                {Undef, Str("lastName")},
                                {Undef, Str("desc")}) :
                List(r, in)
        \/ ListSteps(r, BOOLEAN)

SpecPage == InitListing /\ [][NextPage]_vars

\* one listing filtered by a search string
NextSearch ==
    \E r \in ReqNumbers :
        \/ \E in \in ListInputs({Undef}, {Undef},
                                {Str("c@"), Str("x@"), Str("a_x"), Str("Lee")},
                                {Undef, Str("email")}, {Undef, Str("desc")}) :
                List(r, in)
        \/ ListSteps(r, BOOLEAN)

SpecSearch == InitListing /\ [][NextSearch]_vars

\* listings of the first page while students register and are deleted
NextSnapshot ==
    \E r \in ReqNumbers :
        \/ \E in \in ListInputs({Undef}, {Undef}, {Undef, Str("a@")}, {Undef}, {Undef}) :
                List(r, in)
        \/ ListSteps(r, {TRUE})
        \/ \E in \in RegInputs({"Ann"}, {"c@x"}, {Str("p1")}, {NoFile}) : Register(r, in)
        \/ RegisterHash(r)
        \/ RegisterInsert(r, TRUE)
        \/ \E in \in DeleteInputs({1, 2}, {Token}) : Delete(r, in)
        \/ DeleteSteps(r, {TRUE}, {TRUE})

SpecSnapshot == InitSeeded /\ [][NextSnapshot]_vars

\* one listing for every kind of value the query string can give sort and
\* order: absent, a column of the list, a column outside it, another
\* spelling, SQL text, the empty string, a repeated parameter (an array)
NextSort ==
    \E r \in ReqNumbers :
        \/ \E in \in ListInputs({Undef}, {Undef}, {Undef},
                                {Undef, Str("email"), Str("password"), Str("ID"),
                                 Str("id; DROP TABLE registrations"), Str(""), Arr},
                                {Undef, Str("desc"), Str("DESC"), Str("dEsC"),
                                 Str("descending"), Str("asc"),
                                 Str("DESC; DROP TABLE registrations"),
                                 Str(""), Arr}) :
                List(r, in)
        \/ ListSteps(r, BOOLEAN)

SpecSort == InitListing /\ [][NextSort]_vars

\* registrations and updates that carry no upload, an image, a text file or
\* an image above the size limit
NextUpload ==
    \E r \in ReqNumbers :
        \/ \E in \in RegInputs({"Ann"}, {"c@x"}, {Str("p1")},
                               {NoFile, Image, TextFile, BigImage}) :
                Register(r, in)
        \/ RegisterSteps(r, BOOLEAN, BOOLEAN)
        \/ \E in \in UpdateInputs({1, 3}, {Token}, {EmptyBody},
                                  {NoFile, Image, TextFile, BigImage}) :
                Update(r, in)
        \/ UpdateSteps(r, BOOLEAN, BOOLEAN)

SpecUpload == InitSeeded /\ [][NextUpload]_vars

\* the row of the i-th student of a table filled by registrations
EnrolledStudent(i) ==
    [firstName |-> "S" \o ToString(i), lastName |-> "Lee",
     email |-> "s" \o ToString(i) \o "@bucohub.example",
     phone |-> IF i % 2 = 0 THEN "555" ELSE "", password |-> Hash("p1"),
     courses |-> SubSeq(<<"Web Development", "Data Science", "Design">>, 1, i % 4),
     coursesNull |-> FALSE,
     profilePictureUrl |-> NULL, is_active |-> TRUE,
     last_login |-> FALSE, updated_at |-> "created"]

\* a table of up to MaxStudents students, with one request to come
InitPdf ==
    /\ \E n \in 0..MaxStudents :
            /\ registrations = [i \in 1..n |-> EnrolledStudent(i)]
            /\ autoInc = [registrations |-> n + 1, admins |-> 2]
    /\ admins = (1 :> SeedAdmin)
    /\ files = {}
    /\ reqs = (1 :> IdleReq)

\* one PDF export
NextPdf ==
    \E r \in ReqNumbers :
        \/ \E in \in [cred : {Token}] : Pdf(r, in)
        \/ \E dbOk \in BOOLEAN : PdfSelect(r, dbOk, HeaderYs)

SpecPdf == InitPdf /\ [][NextPdf]_vars

LoginInputs(emails, pwds) == [email : emails, password : pwds]

AdminRegInputs(emails, pwds) ==
    [first_name : {"Ada"}, last_name : {"Roe"}, email : emails, password : pwds,
     role : {"admin"}]

LoginSteps(r, dbOut) ==
    \/ \E dbOk \in dbOut : StudentLoginSelect(r, dbOk)
    \/ \E dbOk \in dbOut : AdminLoginSelect(r, dbOk)
    \/ \E dbOk \in dbOut : StudentLoginTouch(r, dbOk)
    \/ \E dbOk \in dbOut : AdminLoginTouch(r, dbOk)

AdminRegisterSteps(r, dbOut) ==
    \/ AdminRegisterHash(r)
    \/ \E dbOk \in dbOut : AdminRegisterInsert(r, dbOk)

AuthBodies ==
    { Body({"password"}, "", "", "p2", TRUE, Undef),
      Body({"is_active"}, "", "", "", FALSE, Undef) }

\* logins of students and admins, among registrations and updates
NextAuth ==
    \E r \in ReqNumbers :
        \/ \E in \in LoginInputs({"a@x", "zed@x"}, {Str("p1"), Str("p2"), Num}) :
                StudentLogin(r, in)
        \/ \E in \in LoginInputs({"root@x", "zed@x"}, {Str("p1"), Str("p2"), Num}) :
                AdminLogin(r, in)
        \/ LoginSteps(r, BOOLEAN)
        \/ \E in \in AdminRegInputs({"root@x"}, {Str("p1")}) : AdminRegister(r, in)
        \/ AdminRegisterSteps(r, {TRUE})
        \/ \E in \in RegInputs({"Ann"}, {"zed@x"}, {Str("p2")}, {NoFile}) : Register(r, in)
        \/ RegisterHash(r)
        \/ RegisterInsert(r, TRUE)
        \/ \E in \in UpdateInputs({1}, {Token}, AuthBodies, {NoFile}) : Update(r, in)
        \/ UpdateSelect(r, TRUE)
        \/ UpdateQuery(r, TRUE)

SpecAuth == InitSeeded /\ [][NextAuth]_vars

\* registrations of every kind: fields missing, a password that is no
\* string, uploads multer refuses
NextRegister ==
    \E r \in ReqNumbers :
        \/ \E in \in RegInputs({"Ann", ""}, {"a@x", "c@x"}, {Str("p1"), Arr},
                               {NoFile, Image, TextFile, BigImage}) :
                Register(r, in)
        \/ RegisterSteps(r, BOOLEAN, BOOLEAN)

SpecRegister == InitSeeded /\ [][NextRegister]_vars

\* CSV exports of a table in which students register and log in
NextCsv ==
    \E r \in ReqNumbers :
        \/ \E in \in [cred : {Token}] : Csv(r, in)
        \/ \E dbOk \in BOOLEAN : CsvSelect(r, dbOk)
        \/ \E in \in RegInputs({"Bo", "a\",\"b"}, {"c@x"}, {Str("p1")}, {NoFile}) :
                Register(r, in)
        \/ RegisterHash(r)
        \/ RegisterInsert(r, TRUE)
        \/ \E in \in LoginInputs({"a@x"}, {Str("p1")}) : StudentLogin(r, in)
        \/ StudentLoginSelect(r, TRUE)
        \/ StudentLoginTouch(r, TRUE)

SpecCsv == InitSeeded /\ [][NextCsv]_vars

\* the steps that are callbacks of the database, of bcrypt and of the file
\* system for request r
ServeSteps(r) ==
    \/ RegisterSteps(r, BOOLEAN, BOOLEAN)
    \/ LoginSteps(r, BOOLEAN)
    \/ AdminRegisterSteps(r, BOOLEAN)
    \/ ListSteps(r, BOOLEAN)
    \/ \E dbOk \in BOOLEAN : ReadSelect(r, dbOk)
    \/ UpdateSteps(r, BOOLEAN, BOOLEAN)
    \/ DeleteSteps(r, BOOLEAN, BOOLEAN)
    \/ \E dbOk \in BOOLEAN : CsvSelect(r, dbOk)
    \/ \E dbOk \in BOOLEAN : PdfSelect(r, dbOk, {160})

\* requests to every handler
NextServe ==
    \E r \in ReqNumbers :
        \/ \E in \in RegInputs({"Ann"}, {"c@x"}, {Str("p1"), Arr}, {NoFile, Image}) :
                Register(r, in)
        \/ \E in \in LoginInputs({"a@x"}, {Str("p1"), Num}) : StudentLogin(r, in)
        \/ \E in \in LoginInputs({"root@x"}, {Str("p1")}) : AdminLogin(r, in)
        \/ \E in \in AdminRegInputs({"root@x"}, {Str("p1"), Num}) : AdminRegister(r, in)
        \/ \E in \in ListInputs({Undef}, {Undef}, {Undef}, {Undef}, {Undef, Arr}) :
                List(r, in)
        \/ \E in \in DeleteInputs({1, 3}, {Token}) : Read(r, in)
        \/ \E in \in UpdateInputs({1, 3}, {Token}, {EmptyBody}, {NoFile, Image}) :
                Update(r, in)
        \/ \E in \in DeleteInputs({1, 3}, {Token}) : Delete(r, in)
        \/ \E in \in [cred : {Token}] : Csv(r, in)
        \/ \E in \in [cred : {Token}] : Pdf(r, in)
        \/ ServeSteps(r)

SpecServe == InitSeeded /\ [][NextServe]_vars

\* registrations and updates with a picture, and cleanups of the upload
\* directory, in any interleaving
NextCleanup ==
    \E r \in ReqNumbers :
        \/ \E in \in RegInputs({"Ann"}, {"c@x"}, {Str("p1")}, {Image}) :
                Register(r, in)
        \/ RegisterSteps(r, BOOLEAN, BOOLEAN)
        \/ \E in \in UpdateInputs({1, 2}, {Token}, {EmptyBody}, {Image}) :
                Update(r, in)
        \/ UpdateSteps(r, BOOLEAN, BOOLEAN)
        \/ \E in \in [cred : {Token}] : Cleanup(r, in)
        \/ \E dbOk \in BOOLEAN : CleanupSelect(r, dbOk)

SpecCleanup == InitSeeded /\ [][NextCleanup]_vars

\* the process has started and the pool is about to report its connection
InitStartup ==
    /\ registrations = <<>>
    /\ admins \in {<<>>, (1 :> SeedAdmin)}
    /\ autoInc = [registrations |-> 1, admins |-> IF admins = <<>> THEN 1 ELSE 2]
    /\ files = {}
    /\ reqs = (1 :> Starting)

\* the initialisation, with every outcome of every query and the index
\* callbacks in every order
NextStartup ==
    \E r \in ReqNumbers :
        \/ \E connected, railway \in BOOLEAN : getConnection(r, connected, railway)
        \/ \E dbOk \in BOOLEAN : initializeRailwayDatabase(r, dbOk)
        \/ \E dbOk \in BOOLEAN : initializeDatabase(r, dbOk)
        \/ \E i \in 1..totalIndexes, errno \in IndexErrnos :
                createAdditionalIndexes(r, i, errno)
        \/ \E dbOk \in BOOLEAN : createDatabaseViewsAndProcedures(r, dbOk)

SpecStartup == InitStartup /\ [][NextStartup]_vars

\* the values a body can give courses: nothing, null, an array, a number,
\* and strings that are empty, blank, a name, a quoted name, a list with
\* commas, JSON arrays and a JSON number
CoursesInputs ==
    {Undef, Null, Arr, Num, Str(""), Str(" "), Str("web"), Str("\"web\""),
     Str("web, data"), Str("[\"web\",\"data\"]"), Str("[]"), Str("5")}

\* registrations and updates with every kind of courses
NextCourses ==
    \E r \in ReqNumbers :
        \/ \E in \in [firstName : {"Ann"}, lastName : {"Lee"}, email : {"c@x"},
                       phone : {"555"}, password : {Str("p1")},
                       courses : CoursesInputs, file : {NoFile, Image}] :
                Register(r, in)
        \/ RegisterSteps(r, BOOLEAN, BOOLEAN)
        \/ \E in \in UpdateInputs({1}, {Token},
                    {Body({"courses"}, "", "", "", TRUE, c) : c \in CoursesInputs \ {Undef}}
                        \cup {EmptyBody},
                    {NoFile, Image}) :
                Update(r, in)
        \/ UpdateSteps(r, BOOLEAN, BOOLEAN)

SpecCourses == InitSeeded /\ [][NextCourses]_vars

\* every callback a request waits for is eventually delivered
FairServe ==
    /\ InitSeeded
    /\ [][NextServe]_vars
    /\ \A r \in ReqNumbers : WF_vars(ServeSteps(r))

(***************************************************************************)
(* Properties.                                                             *)
(***************************************************************************)
\* the answer a request has sent, or will send once its pending deleteFile resolves
Outcome(q) == IF q.pc = "done" THEN q.res ELSE q.loc.then

EmailTaken(email) ==
    \E i \in DOMAIN registrations : registrations[i].email = email

\* C1: a registration that attached a profile picture and failed has left no
\* file behind once it is answered: the file multer stored for it is gone.
C1_NoOrphanAfterFailedRegister ==
    \A r \in Reqs :
        (/\ reqs[r].kind = "register"
         /\ Pc(r) = "done"
         /\ reqs[r].in.file.present
         /\ reqs[r].res.status # 200)
        => UploadPath(GenFileName(r)) \notin files

\* C2: when the INSERT of a registration runs while a row with its email
\* exists, no row is inserted (the table is unchanged), the request is never
\* answered with success, and the answer is 409 "Email already registered"
\* whenever the query's error is the duplicate key.
C2_DuplicateEmailRejected ==
    [][\A r \in Reqs :
        (/\ Pc(r) = "reg_insert"
         /\ reqs'[r].pc # "reg_insert"
         /\ EmailTaken(reqs[r].in.email))
        => /\ registrations' = registrations
           /\ Outcome(reqs'[r]).status \in {409, 500}
           /\ reqs'[r].loc.err \in {"ER_DUP_ENTRY", "ER_OTHER"}
           /\ reqs'[r].loc.err = "ER_DUP_ENTRY" =>
                Outcome(reqs'[r]) = Resp(409, ErrBody("Email already registered"))]_vars

\* a registration was answered 409 for an email another registration holds
C2_Witness ==
    \E r \in Reqs :
        /\ reqs[r].kind = "register"
        /\ Pc(r) = "done"
        /\ reqs[r].res = Resp(409, ErrBody("Email already registered"))
        /\ EmailTaken(reqs[r].in.email)

\* C3: no two rows of registrations share an email, and of the registrations
\* submitted with one email at most one is answered with success, however
\* the requests interleave.
C3_AtMostOnePerEmail ==
    /\ \A i, j \in DOMAIN registrations :
            i # j => registrations[i].email # registrations[j].email
    /\ \A r, q \in Reqs :
            (/\ r # q
             /\ reqs[r].kind = "register" /\ reqs[q].kind = "register"
             /\ reqs[r].in.email = reqs[q].in.email
             /\ Outcome(reqs[r]).status = 200)
            => Outcome(reqs[q]).status # 200

\* two registrations with one email overlapped: the later one inserted its
\* row while the earlier one's INSERT was still outstanding, and the earlier
\* one was then refused
C3_Witness ==
    \E r, q \in Reqs :
        /\ r < q
        /\ reqs[r].kind = "register" /\ reqs[q].kind = "register"
        /\ reqs[r].in.email = reqs[q].in.email
        /\ reqs[q].pc = "done" /\ reqs[q].res.status = 200
        /\ Pc(r) = "done" /\ reqs[r].res.status = 409
        /\ reqs[q].res.body.studentId = 1

\* a login request that has been answered (the answer of a successful login
\* goes out before its UPDATE of last_login has run)
LoginAnswered(q) ==
    q.kind \in {"slogin", "alogin"} /\ q.pc \in {"login_touch", "done"}

\* the table a login handler looks its principal up in
PrincipalsOf(q) == IF q.kind = "slogin" THEN registrations ELSE admins

C5_FailedLoginsAlike ==
    \A r, q \in Reqs :
        (/\ LoginAnswered(reqs[r]) /\ LoginAnswered(reqs[q])
         /\ reqs[r].kind = reqs[q].kind
         /\ reqs[r].in.password = reqs[q].in.password
         /\ reqs[r].res.status \notin {200, 400}
         /\ reqs[q].res.status \notin {200, 400}
         /\ reqs[r].res # Resp(500, FailBody("Database error"))
         /\ reqs[q].res # Resp(500, FailBody("Database error")))
        => /\ reqs[r].res = reqs[q].res
           /\ reqs[r].res = InvalidCredentials

\* C6: a request to an admin-gated route that carries no admin credential is
\* never answered with success.
C6_AdminGated ==
    \A r \in Reqs :
        (/\ reqs[r].kind \in {"read", "update", "delete"}
         /\ reqs[r].in.cred # Token)
        => reqs[r].res.status # 200

\* every request has been answered and has no query or file operation pending
Quiescent == \A r \in Reqs : reqs[r].pc \in {"idle", "done"}

\* C7: once the requests made so far are completed, every row of
\* registrations with a profilePictureUrl refers to a file that exists in
\* the upload directory.
C7_PictureFileExists ==
    Quiescent =>
        \A i \in DOMAIN registrations :
            registrations[i].profilePictureUrl # NULL
            => ServedPath(registrations[i].profilePictureUrl) \in files

\* C8: a DELETE for a student with a profile picture attempts the removal of
\* the file before it sends the DELETE query; whether the removal succeeded
\* or failed the DELETE query is sent and the request is answered by that
\* query's callback alone; and a request answered with success has left no
\* row with its id.
C8_DeleteSurvivesUnlinkFailure ==
    \A r \in Reqs :
        reqs[r].kind = "delete" =>
            /\ (reqs[r].loc.profilePictureUrl # NULL /\ reqs[r].pc \in {"del_query", "done"})
                => reqs[r].loc.unlinked # "no"
            /\ reqs[r].loc.unlinked # "no" =>
                /\ reqs[r].pc \in {"del_query", "done"}
                /\ reqs[r].pc = "done" =>
                    reqs[r].res \in
                        { Resp(200, [message |-> "Student deleted successfully"]),
                          Resp(500, ErrBody("deleteErr.message")) }
            /\ (reqs[r].pc = "done" /\ reqs[r].res.status = 200)
                => reqs[r].in.id \notin DOMAIN registrations

\* the removal of the picture failed, the file is still there, and the
\* request was answered with success after its row was deleted
C8_Witness ==
    \E r \in Reqs :
        /\ reqs[r].kind = "delete"
        /\ reqs[r].loc.unlinked = "failed"
        /\ ServedPath(reqs[r].loc.profilePictureUrl) \in files
        /\ reqs[r].pc = "done"
        /\ reqs[r].res.status = 200
        /\ reqs[r].in.id \notin DOMAIN registrations

Columns ==
    {"firstName", "lastName", "email", "phone", "password", "courses",
     "profilePictureUrl", "is_active", "last_login", "updated_at"}

\* the columns an update request names: those of its body, the picture when
\* a file is attached, and updated_at
Named(q) ==
    q.in.body.has \cup {"updated_at"}
        \cup (IF q.in.file.present THEN {"profilePictureUrl"} ELSE {})

\* C9: the UPDATE of an update request changes no row but the one with the
\* request's id, adds and removes no row, and leaves every column of that
\* row the request does not name (updated_at aside) at its previous value;
\* no other step of an update request changes the table.
C9_PartialUpdate ==
    [][/\ DOMAIN registrations' = DOMAIN registrations
       /\ \A r \in ReqNumbers :
            (Pc(r) = "upd_query" /\ reqs'[r] # reqs[r])
            => \A i \in DOMAIN registrations :
                /\ i # reqs[r].in.id => registrations'[i] = registrations[i]
                /\ \A c \in Columns \ Named(reqs[r]) :
                        registrations'[i][c] = registrations[i][c]
       /\ (\A r \in ReqNumbers : ~(Pc(r) = "upd_query" /\ reqs'[r] # reqs[r]))
            => registrations' = registrations]_vars

\* an update naming firstName, courses and is_active was applied: those
\* columns changed and the row's email, password and picture did not
C9_Witness ==
    \E r \in Reqs :
        LET id == reqs[r].in.id
        IN /\ reqs[r].kind = "update"
           /\ reqs[r].pc = "done"
           /\ reqs[r].res.status = 200
           /\ reqs[r].in.body.has = {"firstName", "courses", "is_active"}
           /\ ~reqs[r].in.file.present
           /\ id \in DOMAIN registrations
           /\ registrations[id].firstName = "Bob"
           /\ registrations[id].courses = <<"c9">>
           /\ registrations[id].email = SeededRegistrations[id].email
           /\ registrations[id].password = SeededRegistrations[id].password
           /\ registrations[id].profilePictureUrl = SeededRegistrations[id].profilePictureUrl

\* C10: an update whose new email is another student's is answered 409, and
\* no two rows of registrations ever share an email.
C10_EmailConflictIs409 ==
    /\ \A i, j \in DOMAIN registrations :
            i # j => registrations[i].email # registrations[j].email
    /\ \A r \in Reqs :
            (/\ reqs[r].kind = "update"
             /\ reqs[r].loc.err = "ER_DUP_ENTRY"
             /\ reqs[r].pc = "done")
            => reqs[r].res.status = 409

\* C11: an update request deletes a file only when its upload is one the
\* validation accepts (it is not of a refused type and not over the size
\* limit), and the file it deletes is the old picture it read from the row;
\* a request whose upload fails validation deletes no file and changes no
\* row, so the old picture is still there and the row still refers to it.
C11_OldPictureOutlivesInvalidUpload ==
    [][\A r \in Reqs :
        (reqs'[r].kind = "update" /\ reqs'[r] # reqs[r])
        => /\ \A f \in files \ files' :
                /\ reqs'[r].in.file.present
                /\ reqs'[r].in.file \notin {TextFile, BigImage}
                /\ Pc(r) = "upd_unlink_old"
                /\ f = ServedPath(reqs[r].loc.oldProfilePicture)
           /\ reqs'[r].in.file \in {TextFile, BigImage}
                => /\ files \subseteq files'
                   /\ registrations' = registrations]_vars

\* the picture of student 1 was replaced by an update with a valid upload
\* (the old file is gone), and an update of student 1 with a refused upload
\* was answered 400 with the row's picture still in the upload directory
C11_Witness ==
    \E r, q \in Reqs :
        /\ reqs[r].kind = "update" /\ reqs[r].pc = "done"
        /\ reqs[r].in.file \in {TextFile, BigImage}
        /\ reqs[r].in.id = 1
        /\ reqs[r].res.status = 400
        /\ registrations[1].profilePictureUrl # NULL
        /\ ServedPath(registrations[1].profilePictureUrl) \in files
        /\ reqs[q].kind = "update" /\ reqs[q].pc = "done"
        /\ reqs[q].in.file = Image
        /\ reqs[q].res.status = 200
        /\ reqs[q].loc.oldProfilePicture # NULL
        /\ ServedPath(reqs[q].loc.oldProfilePicture) \notin files

\* the least k with k * lim >= n
Ceiling(n, lim) == CHOOSE k \in 0..n : k * lim >= n /\ (k = 0 \/ (k - 1) * lim < n)

\* C12: a listing asked for page pg of lim rows (positive integers) and
\* answered with success returns at most lim rows, currentPage = pg,
\* limit = lim, total = the number of rows matching the search filter,
\* totalPages = ceiling(total / lim), and as rows those at positions
\* (pg-1)*lim .. pg*lim-1 of the matching rows in the requested order.
C12_Pagination ==
    \A r \in Reqs : \A pg \in 1..MaxPage : \A lim \in 1..MaxLimit :
        (/\ reqs[r].kind = "list" /\ reqs[r].pc = "done"
         /\ reqs[r].res.status = 200
         /\ reqs[r].in.page = Str(ToString(pg))
         /\ reqs[r].in.limit = Str(ToString(lim)))
        => LET b == reqs[r].res.body
               m == Matching(reqs[r].loc.searchTerm)
               first == (pg - 1) * lim
               rest == Cardinality(m) - first
               n == IF rest < 0 THEN 0 ELSE IF rest < lim THEN rest ELSE lim
           IN /\ Len(b.students) <= lim
              /\ b.currentPage = Number(pg)
              /\ b.limit = Number(lim)
              /\ b.total = Cardinality(m)
              /\ b.totalPages = Number(Ceiling(Cardinality(m), lim))
              /\ \E p \in OrderedBy(m, reqs[r].loc.sortField, reqs[r].loc.sortOrder) :
                    b.students =
                        [k \in 1..n |-> StudentData(p[first + k], registrations[p[first + k]])]

\* page 2 of a table of three rows, two rows a page: one row, two pages
C12_Witness ==
    \E r \in Reqs :
        /\ reqs[r].kind = "list" /\ reqs[r].pc = "done"
        /\ reqs[r].res.status = 200
        /\ reqs[r].in.page = Str("2")
        /\ reqs[r].in.limit = Str("2")
        /\ reqs[r].res.body.total = 3
        /\ reqs[r].res.body.totalPages = Number(2)
        /\ reqs[r].res.body.currentPage = Number(2)
        /\ Len(reqs[r].res.body.students) = 1
        /\ reqs[r].res.body.students[1].id = 3

\* s occurs in text, character for character
Occurs(s, text) ==
    \E k \in 1..(Len(text) - Len(s) + 1) : SubSeq(text, k, k + Len(s) - 1) = s

\* C13: a listing whose search string occurs in the email of one student
\* and in no firstName, lastName or email of any other student returns
\* exactly that student, and total = 1.
C13_SearchByEmail ==
    \A r \in Reqs : \A i \in DOMAIN registrations :
        (/\ reqs[r].kind = "list" /\ reqs[r].pc = "done"
         /\ reqs[r].res.status = 200
         /\ reqs[r].in.search.type = "string"
         /\ Occurs(reqs[r].in.search.val, registrations[i].email)
         /\ \A j \in DOMAIN registrations \ {i} :
                /\ ~Occurs(reqs[r].in.search.val, registrations[j].firstName)
                /\ ~Occurs(reqs[r].in.search.val, registrations[j].lastName)
                /\ ~Occurs(reqs[r].in.search.val, registrations[j].email))
        => /\ reqs[r].res.body.total = 1
           /\ reqs[r].res.body.students = <<StudentData(i, registrations[i])>>

\* the ids of the rows a listing returned
Returned(body) == {body.students[k].id : k \in DOMAIN body.students}

\* C14: the listing takes its total from the COUNT, which is the number of
\* matching rows when the COUNT runs, and its rows from the SELECT, which
\* returns the rows matching when the SELECT runs, in a later step and with
\* no transaction around the two; the answer carries the COUNT's total
\* unchanged, so when the number of matching rows is the same at the SELECT
\* as it was at the COUNT, total is the number of rows matching when the
\* rows were read.
C14_CountThenData ==
    [][\A r \in Reqs :
        /\ (Pc(r) = "list_count" /\ reqs'[r].pc # "list_count")
            => /\ reqs'[r].pc \in {"list_data", "done"}
               /\ reqs'[r].pc = "list_data" =>
                    /\ reqs'[r].loc.total = Cardinality(Matching(reqs[r].loc.searchTerm))
                    /\ registrations' = registrations
        /\ (Pc(r) = "list_data" /\ reqs'[r].pc # "list_data"
                /\ reqs'[r].res.status = 200)
            => /\ reqs'[r].res.body.total = reqs[r].loc.total
               /\ Returned(reqs'[r].res.body) = Matching(reqs[r].loc.searchTerm)
               /\ reqs[r].loc.total = Cardinality(Matching(reqs[r].loc.searchTerm))
                    => reqs'[r].res.body.total = Len(reqs'[r].res.body.students)]_vars

\* a student was deleted (or registered) between the COUNT and the SELECT of
\* a listing: its total is not the number of rows it returned
C14_Witness ==
    \E r \in Reqs :
        /\ reqs[r].kind = "list" /\ reqs[r].pc = "done"
        /\ reqs[r].res.status = 200
        /\ reqs[r].res.body.total # Len(reqs[r].res.body.students)

\* A CSV reader (RFC 4180): fields are separated by commas and records by
\* line breaks; inside double quotes commas and line breaks are text and a
\* doubled quote is one quote.

\* the position of the first character of text that is in marks, 0 if none
FirstOf(marks, text) ==
    IF \E i \in 1..Len(text) : Char(text, i) \in marks
    THEN CHOOSE i \in 1..Len(text) :
            /\ Char(text, i) \in marks
            /\ \A j \in 1..(i - 1) : Char(text, j) \notin marks
    ELSE 0

\* One record is read from the front of text: quoted says whether the
\* reader is inside quotes, field and record are what it has read of the
\* current field and record.  The result is the record, the text after its
\* line break, and whether there was a line break.
RECURSIVE ReadRecord(_, _, _, _)
ReadRecord(text, quoted, field, record) ==
    LET at == FirstOf(IF quoted THEN {"\""} ELSE {"\"", ",", "\n"}, text)
        upto == field \o SubSeq(text, 1, at - 1)
        after == SubSeq(text, at + 1, Len(text))
    IN IF at = 0
       THEN [record |-> Append(record, field \o text), rest |-> "", more |-> FALSE]
       ELSE IF quoted
       THEN IF after # "" /\ Char(after, 1) = "\""
            THEN ReadRecord(Rest(after), TRUE, upto \o "\"", record)
            ELSE ReadRecord(after, FALSE, upto, record)
       ELSE IF Char(text, at) = "\"" THEN ReadRecord(after, TRUE, upto, record)
       ELSE IF Char(text, at) = "," THEN ReadRecord(after, FALSE, "", Append(record, upto))
       ELSE [record |-> Append(record, upto), rest |-> after, more |-> TRUE]

RECURSIVE ParseCsv(_)
ParseCsv(text) ==
    LET first == ReadRecord(text, FALSE, "", <<>>)
    IN IF first.more THEN <<first.record>> \o ParseCsv(first.rest)
       ELSE <<first.record>>

\* C15: parsing the CSV of an export gives the header record and one record
\* for each row the query returned, every record has 13 fields, and the
\* ninth field of a student's record is the student's courses joined by
\* ", ".
C15_CsvRoundTrip ==
    \A r \in Reqs :
        (reqs[r].kind = "csv" /\ reqs[r].pc = "done" /\ reqs[r].res.status = 200)
        => LET records == ParseCsv(reqs[r].res.body.csv)
               result == reqs[r].loc.result
           IN /\ Len(records) = 1 + Len(result)
              /\ records[1] = csvHeaders
              /\ \A k \in DOMAIN records : Len(records[k]) = 13
              /\ \A k \in DOMAIN result :
                    result[k] \in DOMAIN registrations
                    => records[k + 1][9] = Join(registrations[result[k]].courses, ", ")

\* C16: every answer follows the taxonomy of statuses: a refused upload
\* gives 400, a uniqueness conflict at the INSERT of a registration or of
\* an admin or at the UPDATE of a student gives 409 (and 409 is given for
\* nothing else), and any other failure of the statement gives 500.
C16_ErrorTaxonomy ==
    \A r \in Reqs :
        (reqs[r].kind \in {"register", "aregister", "update"} /\ reqs[r].pc = "done")
        => /\ reqs[r].res.status \in {200, 400, 404, 409, 500}
           /\ reqs[r].loc.err = "ER_DUP_ENTRY" <=> reqs[r].res.status = 409
           /\ reqs[r].loc.err = "ER_OTHER" => reqs[r].res.status = 500
           /\ (reqs[r].kind # "aregister" /\ MulterRefuses(reqs[r].in.file))
                => reqs[r].res.status = 400

\* C17: when the lookup of a login runs and the principal with the
\* submitted email is not active, the login is answered as for an unknown
\* email, 401 "Invalid email or password" (500 when the query fails), with
\* no token, whatever the password; it sets no last_login.
C17_InactiveNeverLogsIn ==
    [][\A r \in Reqs :
        (/\ Pc(r) = "login_select"
         /\ reqs'[r].pc # "login_select"
         /\ \E i \in DOMAIN PrincipalsOf(reqs[r]) :
                PrincipalsOf(reqs[r])[i].email = reqs[r].in.email
         /\ \A i \in DOMAIN PrincipalsOf(reqs[r]) :
                PrincipalsOf(reqs[r])[i].email = reqs[r].in.email
                => ~PrincipalsOf(reqs[r])[i].is_active)
        => /\ reqs'[r].pc = "done"
           /\ reqs'[r].res \in {InvalidCredentials, Resp(500, FailBody("Database error"))}]_vars

\* student 1 was deactivated and then refused with 401 for the password its
\* row holds the hash of
C17_Witness ==
    \E r \in Reqs :
        /\ reqs[r].kind = "slogin" /\ reqs[r].pc = "done"
        /\ reqs[r].in.email = registrations[1].email
        /\ reqs[r].in.password.type = "string"
        /\ registrations[1].password = Hash(reqs[r].in.password.val)
        /\ ~registrations[1].is_active
        /\ reqs[r].loc.id = 0
        /\ reqs[r].res = InvalidCredentials

\* C18: once a login that was answered with success and a token has no
\* statement left to run, the last_login of its principal is set.
C18_SuccessSetsLastLogin ==
    \A r \in Reqs :
        (/\ reqs[r].kind \in {"slogin", "alogin"}
         /\ reqs[r].pc = "done"
         /\ reqs[r].res.status = 200
         /\ reqs[r].loc.id \in DOMAIN PrincipalsOf(reqs[r]))
        => PrincipalsOf(reqs[r])[reqs[r].loc.id].last_login

\* the file multer has written for request r when it carries an upload
WrittenBy(r) == <<"uploads", "/", "profile-" \o ToString(r)>>

\* C19: the step that answers a registration with success adds exactly one
\* registrations row, under the returned identifier, with the submitted
\* name, email and phone and the hash of the submitted password; it changes
\* no other row and writes no file; the answer echoes the profile data; with
\* an upload the row's profilePictureUrl is served from the one file the
\* request wrote, and without one it is null.  No step of a registration
\* adds a file other than the upload of its own request.
C19_RegisterAddsOneRow ==
    [][\A r \in Reqs :
        /\ (reqs'[r].kind = "register" /\ reqs'[r] # reqs[r])
            => /\ files' \ files \subseteq {WrittenBy(r)}
               /\ files' # files => (Pc(r) = "idle" /\ reqs'[r].in.file.present)
        /\ (Pc(r) = "reg_insert" /\ reqs'[r].res.status = 200)
            => LET in == reqs[r].in
                   body == reqs'[r].res.body
                   id == body.studentId
               IN /\ id \notin DOMAIN registrations
                  /\ DOMAIN registrations' = DOMAIN registrations \cup {id}
                  /\ \A i \in DOMAIN registrations :
                        registrations'[i] = registrations[i]
                  /\ admins' = admins
                  /\ files' = files
                  /\ registrations'[id].firstName = in.firstName
                  /\ registrations'[id].lastName = in.lastName
                  /\ registrations'[id].email = in.email
                  /\ registrations'[id].phone = in.phone
                  /\ registrations'[id].password =
                        [alg |-> "bcrypt", of |-> in.password.val]
                  /\ body.message = "Registration successful"
                  /\ body.firstName = in.firstName
                  /\ body.lastName = in.lastName
                  /\ body.email = in.email
                  /\ body.phone = in.phone
                  /\ body.courses = registrations'[id].courses
                  /\ body.profilePictureUrl = registrations'[id].profilePictureUrl
                  /\ IF in.file.present
                     THEN /\ registrations'[id].profilePictureUrl # NULL
                          /\ ServedPath(registrations'[id].profilePictureUrl)
                                = WrittenBy(r)
                          /\ WrittenBy(r) \in files'
                     ELSE registrations'[id].profilePictureUrl = NULL]_vars

\* a registration with a picture was answered with success: its row is in
\* the table with the URL of the file the request wrote
C19_Witness ==
    \E r \in Reqs :
        /\ reqs[r].kind = "register"
        /\ reqs[r].pc = "done"
        /\ reqs[r].res.status = 200
        /\ reqs[r].in.file.present
        /\ reqs[r].res.body.studentId \in DOMAIN registrations
        /\ registrations[reqs[r].res.body.studentId].email = reqs[r].in.email
        /\ WrittenBy(r) \in files

\* the columns a listing may be ordered by
SortableColumns ==
    {"id", "firstName", "lastName", "email", "age", "created_at", "last_login"}

\* the spellings of DESC in upper and lower case letters
DescSpellings ==
    {a \o b \o c \o d : a \in {"d", "D"}, b \in {"e", "E"},
                        c \in {"s", "S"}, d \in {"c", "C"}}

\* C20: in every listing whose SQL text was assembled the ORDER BY column is
\* one of id, firstName, lastName, email, age, created_at, last_login, it is
\* the requested column when that is one of them and id otherwise, and the
\* direction is ASC or DESC, DESC exactly when the requested order is a
\* spelling of DESC; a listing whose order is no string is answered 500
\* without any SQL text.
C20_SortAllowList ==
    \A r \in Reqs :
        reqs[r].kind = "list"
        => LET q == reqs[r]
           IN IF q.in.order.type \in {"string", "undefined"}
              THEN /\ q.loc.sortField \in SortableColumns
                   /\ q.loc.sortField =
                        (IF q.in.sort.type = "string"
                            /\ q.in.sort.val \in SortableColumns
                         THEN q.in.sort.val ELSE "id")
                   /\ q.loc.sortOrder \in {"ASC", "DESC"}
                   /\ q.loc.sortOrder = "DESC"
                        <=> (q.in.order.type = "string"
                             /\ q.in.order.val \in DescSpellings)
              ELSE /\ q.pc = "done"
                   /\ q.res.status = 500
                   /\ q.loc.sortField = ""

\* a listing that asked for the column password in the order dEsC was
\* answered with all three students by descending id
C20_Witness ==
    \E r \in Reqs :
        /\ reqs[r].kind = "list" /\ reqs[r].pc = "done"
        /\ reqs[r].res.status = 200
        /\ reqs[r].in.sort = Str("password")
        /\ reqs[r].in.order = Str("dEsC")
        /\ reqs[r].loc.sortField = "id"
        /\ reqs[r].loc.sortOrder = "DESC"
        /\ Len(reqs[r].res.body.students) = 3
        /\ reqs[r].res.body.students[1].id = 3
        /\ reqs[r].res.body.students[3].id = 1

\* an upload of a type outside the image formats, or above 5 MB
RefusedUpload(file) ==
    /\ file.present
    /\ \/ file.mimetype \notin
            {"image/jpeg", "image/jpg", "image/png", "image/gif", "image/webp"}
       \/ file.size > 5 * 1024 * 1024

\* C21: a step of a registration or an update that carries a refused upload
\* changes no registrations row and, when it answers, answers 400; and a
\* step that creates a row with a profilePictureUrl, or changes the
\* profilePictureUrl of a row to another URL, belongs to a request whose
\* upload is not refused and stores the URL of that request's file.
C21_NoRowForRefusedUpload ==
    [][\A r \in Reqs :
        (reqs'[r].kind \in {"register", "update"} /\ reqs'[r] # reqs[r])
        => /\ RefusedUpload(reqs'[r].in.file)
                => /\ registrations' = registrations
                   /\ reqs'[r].pc = "done" => reqs'[r].res.status = 400
           /\ \A id \in DOMAIN registrations' :
                LET was == IF id \in DOMAIN registrations
                           THEN registrations[id].profilePictureUrl ELSE NULL
                    url == registrations'[id].profilePictureUrl
                IN (url # was /\ url # NULL)
                   => /\ reqs'[r].in.file.present
                      /\ ~RefusedUpload(reqs'[r].in.file)
                      /\ ServedPath(url) = WrittenBy(r)]_vars

\* a registration with a text file and an update with an image above the
\* limit were both answered 400, and the table is as it was seeded
C21_Witness ==
    \E r, u \in Reqs :
        /\ reqs[r].kind = "register" /\ reqs[r].pc = "done"
        /\ reqs[r].in.file = TextFile /\ reqs[r].res.status = 400
        /\ reqs[u].kind = "update" /\ reqs[u].pc = "done"
        /\ reqs[u].in.file = BigImage /\ reqs[u].res.status = 400
        /\ registrations = SeededRegistrations

\* the smaller of two numbers
Least(a, b) == IF a < b THEN a ELSE b

\* C22: in an exported PDF the lines are the students of the result set, at
\* most 100 and all of the table when it holds fewer, each exactly once;
\* no line is drawn below position 700; the first line follows the header
\* on the first page; a line follows the one before it by 20 on the same
\* page when that position is not above 700, and otherwise, and only then,
\* stands at position 50 of the next page.
C22_PdfLayout ==
    \A r \in Reqs :
        (reqs[r].kind = "pdf" /\ reqs[r].pc = "done" /\ reqs[r].res.status = 200)
        => LET doc == reqs[r].res.body.pdf
               rows == doc.rows
               n == Len(rows)
           IN /\ n = Least(100, Cardinality(DOMAIN registrations))
              /\ \A i \in DOMAIN registrations :
                    Cardinality({k \in 1..n : rows[k].id = i}) <= 1
              /\ \A k \in 1..n :
                    /\ rows[k].id \in DOMAIN registrations
                    /\ rows[k].y <= 700
              /\ n > 0 => (rows[1].page = 1 /\ rows[1].y = doc.headerY + 25)
              /\ \A k \in 2..n :
                    IF rows[k - 1].y + 20 > 700
                    THEN rows[k].page = rows[k - 1].page + 1 /\ rows[k].y = 50
                    ELSE rows[k].page = rows[k - 1].page
                            /\ rows[k].y = rows[k - 1].y + 20
              /\ doc.pages = IF n = 0 THEN 1 ELSE rows[n].page

\* an export of a table of more than 100 students drew 100 lines on four
\* pages, one of them at position 700 with the next at the top of a page
C22_Witness ==
    \E r \in Reqs :
        /\ reqs[r].kind = "pdf" /\ reqs[r].pc = "done"
        /\ reqs[r].res.status = 200
        /\ Cardinality(DOMAIN registrations) > 100
        /\ Len(reqs[r].res.body.pdf.rows) = 100
        /\ reqs[r].res.body.pdf.pages = 4
        /\ \E k \in 1..99 :
              /\ reqs[r].res.body.pdf.rows[k].y = 700
              /\ reqs[r].res.body.pdf.rows[k + 1].y = 50
              /\ reqs[r].res.body.pdf.rows[k + 1].page
                    = reqs[r].res.body.pdf.rows[k].page + 1

\* request r has been sent its response
Responded(r) == r \in Reqs /\ reqs[r].res.status # 0

C24_PasswordsAreHashed ==
    /\ \A i \in DOMAIN registrations : registrations[i].password.alg = "bcrypt"
    /\ \A i \in DOMAIN admins :
            \/ admins[i].password.alg = "bcrypt"
            \/ admins[i].password = SeedPassword

\* a record of a response carries a password column
HasPassword(record) == "password" \in DOMAIN record

\* the plaintexts of the stored passwords and of the passwords the requests
\* submitted as strings
Plaintexts ==
    {registrations[i].password.of : i \in DOMAIN registrations}
    \cup {admins[i].password.of : i \in DOMAIN admins}
    \cup {reqs[r].in.password.val :
            r \in {q \in Reqs : reqs[q].kind \in {"register", "slogin", "alogin", "aregister"}
                                 /\ reqs[q].in.password.type = "string"}}

\* C25: no response carries a password: neither its body, nor the data of
\* the principal of a login, nor a student of a listing has a password
\* column, and no plaintext of a password stands in the text of a CSV
\* export or in a cell of a PDF export.
C25_NoPasswordInResponse ==
    \A r \in Reqs :
        Responded(r)
        => LET q == reqs[r]
               b == q.res.body
           IN /\ ~HasPassword(b)
              /\ (q.res.status = 200 /\ q.kind \in {"slogin", "alogin"})
                    => ~HasPassword(b.principal)
              /\ (q.res.status = 200 /\ q.kind = "list")
                    => \A k \in DOMAIN b.students : ~HasPassword(b.students[k])
              /\ (q.res.status = 200 /\ q.kind = "csv")
                    => \A p \in Plaintexts : ~Occurs(p, b.csv)
              /\ (q.res.status = 200 /\ q.kind = "pdf")
                    => \A k \in DOMAIN b.pdf.rows :
                         \A c \in DOMAIN b.pdf.rows[k].cells :
                            \A p \in Plaintexts : ~Occurs(p, b.pdf.rows[k].cells[c])

\* a student has logged in and received the data of the row, and a reader
\* has received the row of a student
C25_Witness ==
    \E r, q \in Reqs :
        /\ reqs[r].kind = "slogin" /\ reqs[r].res.status = 200
        /\ reqs[r].res.body.principal.email = "a@x"
        /\ reqs[q].kind = "read" /\ reqs[q].res.status = 200
        /\ reqs[q].res.body.email = "a@x"

\* C26: when an update that stored a new picture has been answered with
\* anything but success, the file it stored is no longer in the upload
\* directory.
C26_FailedUpdateLeavesNoUpload ==
    \A r \in Reqs :
        (/\ reqs[r].kind = "update"
         /\ reqs[r].pc = "done"
         /\ reqs[r].loc.file.present
         /\ reqs[r].res.status # 200)
        => reqs[r].loc.file.path \notin files

\* the files stored for requests whose handler has not finished
UploadsInFlight ==
    {reqs[q].loc.file.path :
        q \in {x \in Reqs : /\ reqs[x].kind \in {"register", "update"}
                            /\ reqs[x].pc # "done"
                            /\ reqs[x].loc.file.present}}

\* C27: a step of a cleanup removes no file that was stored for a
\* registration or an update whose handler has not finished.
C27_CleanupSparesUploadsInFlight ==
    [][\A r \in Reqs :
        (reqs[r].kind = "cleanup" /\ reqs'[r] # reqs[r])
        => (files \ files') \cap UploadsInFlight = {}]_vars

\* C28: createDatabaseViewsAndProcedures has been called once when the
\* tables were created and all five index queries have called back, and
\* not at all before that or when the creation of the tables failed.
C28_ViewsOnceAfterAllIndexes ==
    \A r \in Reqs :
        reqs[r].kind = "startup"
        => LET all == /\ reqs[r].loc.tables = "created"
                      /\ DOMAIN reqs[r].loc.errno = 1..5
           IN /\ reqs[r].loc.views = IF all THEN 1 ELSE 0
              /\ reqs[r].loc.tables = "failed" => reqs[r].loc.views = 0

\* the five index queries have called back, two of them with an error, and
\* the views and procedures were created
C28_Witness ==
    \E r \in Reqs :
        /\ reqs[r].kind = "startup"
        /\ reqs[r].pc = "done"
        /\ reqs[r].loc.views = 1
        /\ DOMAIN reqs[r].loc.errno = 1..5
        /\ reqs[r].loc.errno[1] = 1064
        /\ reqs[r].loc.errno[4] = 1061
        /\ reqs[r].loc.errno[5] = 0

\* C29: the courses column of every registrations row holds a list.
C29_CoursesIsAList ==
    \A i \in DOMAIN registrations : ~registrations[i].coursesNull

\* C30: for the upload of every request, deleteFile unlinks the same file
\* whether it gets the stored URL of the upload or req.file.path, and that
\* file is the one multer stored; it resolves true for an empty path or a
\* removal that succeeded and false for a removal that failed.
C30_DeleteFileSameTarget ==
    \A r \in Reqs :
        (reqs[r].kind \in {"register", "update"} /\ reqs[r].loc.file.present)
        => LET file == reqs[r].loc.file
               url == generateFileUrl(file.filename)
           IN /\ DeleteTarget(url) = DeleteTarget(file.path)
              /\ DeleteTarget(url) = file.path
              /\ \A ok \in BOOLEAN :
                    /\ deleteFileResult(NULL, ok)
                    /\ deleteFileResult(url, ok) = (file.path \in files /\ ok)

=============================================================================
